---- MODULE Spec2Model ----
(***************************************************************************)
(* Model of the coach agent's tool-augmented chat loop                     *)
(* (CoachAgent.chatWithToolsStream), the goal-management callbacks the     *)
(* streaming chat route binds to it, and the REST goal/progress routes     *)
(* that write the same tables (Spec); of the streaming chat route around   *)
(* the loop, from the token check to the closing of the stream             *)
(* (StreamSpec); of the non-streaming entry point chatWithTools            *)
(* (ToolsSpec); of create_goal and update_goal calls taken on their own   *)
(* (CreateSpec, UpdateSpec); of the writers of a goal's status             *)
(* (StatusSpec); of the stream with a steady consumer (StreamLiveSpec) and *)
(* with one that leaves (AbandonSpec); of chat requests and of invocations *)
(* of the loop running side by side (ConcSpec, PairSpec); and of the       *)
(* client's reader of the stream, sendMessageStream (ClientSpec).          *)
(***************************************************************************)
EXTENDS Integers, Sequences, FiniteSets, TLC

(* ---------------------------------------------------------------- bounds *)
\* Most goal rows the coaching_goals table holds in the model.
MaxGoals == 1
\* Most rows the progress table holds in the model.
MaxProgress == 1
\* Most tool calls one model response carries in the model.
MaxCalls == 2

\* .limit(5) of the recent-progress query.
RecentLimit == 5

Users == {"u1", "u2"}

(* --------------------------------------------------------- value domains *)
\* A JS argument that was not supplied (undefined).
Absent == "absent"
\* A NULL column.
Null == "null"
\* JS truthiness of an optional string: undefined and "" are falsy.
Truthy(x) == x # Absent /\ x # ""

\* The JS value undefined, as a tool's return value or as a serialization.
Undefined == [kind |-> "undefined"]
\* A JS string holding the JSON text of v.
Str(v) == [kind |-> "string", json |-> v]
\* JSON.stringify: undefined has no JSON text, so the result is undefined,
\* not a string; every other value gives a string.
JSONstringify(v) == IF v = Undefined THEN Undefined ELSE Str(v)

\* The goal id tool calls and REST paths name. Whether it names a goal of the
\* requesting user, a goal of another user or no goal at all depends on the
\* rows in the table when the call runs.
GoalRef == 1

\* Contents a model response may carry ("" is an empty content).
Contents == {"", "c1"}

NoArgs ==
  [goalId |-> 0, title |-> Absent, description |-> Absent, status |-> Absent,
   targetDate |-> Absent, notes |-> Absent, sentiment |-> Absent]

ToolCall(name, args, id) == [name |-> name, args |-> args, id |-> id]

\* The tool calls a model response may carry: the four registered tools with
\* arguments inside and outside their schemas, and a name no tool has.
ToolCallChoices ==
  { ToolCall("create_goal", [NoArgs EXCEPT !.title = "t1"], "call_c"),
    ToolCall("update_goal", [NoArgs EXCEPT !.goalId = GoalRef, !.status = "completed"], "call_u"),
    ToolCall("update_goal", [NoArgs EXCEPT !.goalId = GoalRef, !.status = "paused"], "call_p"),
    ToolCall("add_progress", [NoArgs EXCEPT !.goalId = GoalRef, !.notes = "n1"], "call_a"),
    ToolCall("list_goals", NoArgs, "call_l"),
    ToolCall("delete_goal", [NoArgs EXCEPT !.goalId = GoalRef], "call_d") }

\* All sequences over S of length at most n.
RECURSIVE SeqsUpTo(_, _)
SeqsUpTo(S, n) ==
  IF n = 0 THEN {<<>>}
  ELSE LET shorter == SeqsUpTo(S, n - 1)
       IN  shorter \cup {Append(s, x) : s \in {t \in shorter : Len(t) = n - 1}, x \in S}

HumanMessage(c) == [role |-> "human", content |-> [text |-> c]]
AIMessage(c) == [role |-> "ai", content |-> [text |-> c]]
SystemMessage(c) == [role |-> "system", content |-> c]

\* convertMessageHistory: role-maps the stored messages.
convertMessageHistory(msgs) ==
  [i \in 1..Len(msgs) |->
     CASE msgs[i].role = "user" -> HumanMessage(msgs[i].content)
       [] msgs[i].role = "assistant" -> AIMessage(msgs[i].content)
       [] msgs[i].role = "system" -> SystemMessage([text |-> msgs[i].content])
       [] OTHER -> HumanMessage(msgs[i].content)]

\* Prior turns of a conversation, as stored rows.
StoredHistories ==
  { <<>>,
    <<[role |-> "user", content |-> "m1"], [role |-> "assistant", content |-> "a1"],
      [role |-> "system", content |-> "s1"]>> }

VARIABLES
  users,            \* subjects that have a users row
  goals,            \* coaching_goals rows, in insertion order; id = position
  progress,         \* progress rows, in insertion order
  goalWriters,      \* per goal: who changed the row, naming which goal id
  pc,               \* position of the one chat request in flight
  reqUser,          \* the user the request in flight belongs to
  chatHistory,      \* the chatHistory argument
  userContext,      \* the userContext argument (goals, recentProgress)
  enhancedHistory,  \* enhancedHistory, as sent to the model
  response,         \* the decision pass's response
  finalResponse,    \* the follow-up pass's response
  idx,              \* position in response.tool_calls of the current call
  events,           \* the events yielded so far
  toolMessages,     \* toolMessages
  modelCalls,       \* the model invocations made, each with its bound tools
  inflight,         \* positions of the tool calls whose executor is running
  execLog,          \* positions of the tool calls whose callback was invoked
  raised            \* position of the tool call whose callback threw, or 0

VARIABLES
  conversations,    \* conversations rows, in insertion order; id = position
  messages,         \* messages rows, in insertion order
  rpc,              \* position of the one chat route request being served
  request,          \* that request: its token's standing and its body
  conversation,     \* id of the conversation the request writes to, or 0
  fullResponse,     \* fullResponse of the streaming route
  frames,           \* the frames enqueued on the response stream
  httpStatus,       \* HTTP status of the response, or 0 before there is one
  atEntry,          \* table sizes when the request came in
  returned          \* what chatWithTools resolved to

dbVars == <<users, goals, progress, goalWriters>>
agentVars ==
  <<pc, reqUser, chatHistory, userContext, enhancedHistory, response,
    finalResponse, idx, events, toolMessages, modelCalls, inflight, execLog,
    raised>>
VARIABLES
  cancelledAt,      \* where the generator was when the consumer left, or "none"
  reqs,             \* chat requests served side by side, each at its own step
  client,           \* sendMessageStream: the bytes to read, its buffer, its yields
  inv,              \* invocations of chatWithToolsStream run side by side
  singleton         \* the fields of the coachAgent singleton

routeVars ==
  <<conversations, messages, rpc, request, conversation, fullResponse, frames,
    httpStatus, atEntry, returned>>
auxVars == <<cancelledAt, reqs, client, inv, singleton>>
vars == <<dbVars, agentVars, routeVars, auxVars>>

(* ------------------------------------------------------ persistence layer *)
GoalIds == 1..Len(goals)

\* A coaching_goals row as inserted: id and owner given, status as given.
GoalRow(id, u, title, description, status, targetDate) ==
  [id |-> id, userId |-> u, title |-> title, description |-> description,
   status |-> status, targetDate |-> targetDate]

\* An optional value as stored: a value not supplied is stored as NULL.
Stored(x) == IF x = Absent THEN Null ELSE x

\* The keys of an update's .set(...) object; Absent marks a key not set.
NoUpdate ==
  [title |-> Absent, description |-> Absent, status |-> Absent, targetDate |-> Absent]

\* One row after UPDATE ... SET: the keys set take the new values, the
\* others keep theirs.
Patched(row, set) ==
  [row EXCEPT
     !.title = IF set.title = Absent THEN @ ELSE set.title,
     !.description = IF set.description = Absent THEN @ ELSE set.description,
     !.status = IF set.status = Absent THEN @ ELSE set.status,
     !.targetDate = IF set.targetDate = Absent THEN @ ELSE set.targetDate]

\* Values a tool callback resolves to.
GoalValue(row) == [tag |-> "goal", row |-> row]
GoalList(rows) == [tag |-> "list", rows |-> rows]
Success == [tag |-> "success"]

\* new Date(s) for an ISO date string, as the timestamp stored.
NewDate(s) ==
  CASE s = "2025-01-01" -> "2025-01-01T00:00:00.000Z"
    [] OTHER -> "Invalid Date"

\* The outcome of a callback: whether it threw, what it resolved to, and the
\* tables after it.
Outcome(threw, ret, gs, ps, ws) ==
  [threw |-> threw, ret |-> ret, goals |-> gs, progress |-> ps, goalWriters |-> ws]

\* (a goal without a description given one)
createGoalDefaultDescription(u, title, description, targetDate) ==
  IF title = Absent
  THEN Outcome(TRUE, Undefined, goals, progress, goalWriters)
  ELSE LET row == GoalRow(Len(goals) + 1, u, title,
                          IF Truthy(description) THEN description ELSE "No description",
                          "active",
                          IF Truthy(targetDate) THEN NewDate(targetDate) ELSE Null)
       IN  Outcome(FALSE, GoalValue(row), Append(goals, row), progress,
                   Append(goalWriters, {}))
\* goalCallbacks.createGoal: inserts a row owned by the requesting user with
\* status active, the description as given and the target date converted
\* when there is one; title is NOT NULL, so an insert without one is refused
\* by the table.
createGoal(u, title, description, targetDate) ==
  IF title = Absent
  THEN Outcome(TRUE, Undefined, goals, progress, goalWriters)
  ELSE LET row == GoalRow(Len(goals) + 1, u, title, Stored(description),
                          "active",
                          IF Truthy(targetDate) THEN NewDate(targetDate) ELSE Null)
       IN  Outcome(FALSE, GoalValue(row), Append(goals, row), progress,
                   Append(goalWriters, {}))

\* WHERE clause of the callback's UPDATE: the named id and the requesting
\* user's ownership.
\* (the same clause without the ownership condition)
UpdateGoalWhereAnyOwner(row, goalId, u) == row.id = goalId
UpdateGoalWhere(row, goalId, u) == row.id = goalId /\ row.userId = u

\* goalCallbacks.updateGoal: builds the SET object from the truthy updates,
\* updates the rows the WHERE clause matches and resolves to the first
\* returned row, which is undefined when no row matched.
updateGoal(u, goalId, updates) ==
  LET updateData ==
        [title |-> IF Truthy(updates.title) THEN updates.title ELSE Absent,
         description |-> IF Truthy(updates.description) THEN updates.description ELSE Absent,
         status |-> IF Truthy(updates.status) THEN updates.status ELSE Absent,
         targetDate |-> IF Truthy(updates.targetDate) THEN NewDate(updates.targetDate)
                        ELSE Absent]
      hit == {g \in GoalIds : UpdateGoalWhere(goals[g], goalId, u)}
      gs == [g \in GoalIds |-> IF g \in hit THEN Patched(goals[g], updateData) ELSE goals[g]]
      ws == [g \in GoalIds |->
               IF g \in hit THEN goalWriters[g] \cup {[by |-> u, named |-> goalId]}
               ELSE goalWriters[g]]
  IN  IF hit = {}
      THEN Outcome(FALSE, Undefined, goals, progress, goalWriters)
      ELSE Outcome(FALSE, GoalValue(gs[CHOOSE g \in hit : TRUE]), gs, progress, ws)

\* goalCallbacks.addProgress: inserts a progress row for the named goal id
\* with no look-up of the goal; the table's foreign key refuses an id that
\* no goal has and its NOT NULL refuses missing notes.
addProgress(u, goalId, notes, sentiment) ==
  IF goalId \notin GoalIds \/ notes = Absent
  THEN Outcome(TRUE, Undefined, goals, progress, goalWriters)
  ELSE Outcome(FALSE, Success, goals,
               Append(progress, [goalId |-> goalId, notes |-> notes,
                                 sentiment |-> Stored(sentiment), by |-> u]),
               goalWriters)

\* (a listing that also clears the progress entries)
listGoalsClearing(u) ==
  Outcome(FALSE, GoalList(SelectSeq(goals, LAMBDA g : g.userId = u)),
          goals, <<>>, goalWriters)

\* goalCallbacks.listGoals: the requesting user's goal rows.
listGoals(u) ==
  Outcome(FALSE, GoalList(SelectSeq(goals, LAMBDA g : g.userId = u)), goals,
          progress, goalWriters)

\* Whether the tables after a callback stay within the model's bounds.
Fits(o) == Len(o.goals) <= MaxGoals /\ Len(o.progress) <= MaxProgress

(* ---------------------------------------------------------- tool registry *)
ToolNames == {"create_goal", "update_goal", "add_progress", "list_goals"}

\* tools.find(t => t.name === toolCall.name)
FindTool(name) == name \in ToolNames

\* The zod schemas of the four tools.
SchemaOK(call) ==
  CASE call.name = "create_goal" -> call.args.title # Absent
    [] call.name = "update_goal" ->
         /\ call.args.goalId # 0
         /\ call.args.status \in {Absent, "active", "completed", "abandoned"}
    [] call.name = "add_progress" ->
         /\ call.args.goalId # 0
         /\ call.args.notes # Absent
         /\ call.args.sentiment \in {Absent, "positive", "neutral", "challenging"}
    [] call.name = "list_goals" -> TRUE
    [] OTHER -> FALSE

\* tool.func(args) of the tool named by the call, run for user u: the
\* callback's outcome with its return value serialized by JSON.stringify.
ToolFunc(call, u) ==
  LET a == call.args
      o == CASE call.name = "create_goal" ->
                  createGoal(u, a.title, a.description, a.targetDate)
             [] call.name = "update_goal" ->
                  updateGoal(u, a.goalId,
                    [title |-> IF Truthy(a.title) THEN a.title ELSE Absent,
                     description |-> IF Truthy(a.description) THEN a.description ELSE Absent,
                     status |-> IF Truthy(a.status) THEN a.status ELSE Absent,
                     targetDate |-> IF Truthy(a.targetDate) THEN a.targetDate ELSE Absent])
             [] call.name = "add_progress" ->
                  addProgress(u, a.goalId, a.notes, a.sentiment)
             [] OTHER -> listGoals(u)
  IN  [o EXCEPT !.ret = JSONstringify(o.ret)]

(* ------------------------------------------------------ context assembly *)
\* Active goals of a user, as the chat route selects them.
ActiveGoals(u) == SelectSeq(goals, LAMBDA g : g.userId = u /\ g.status = "active")

Reverse(s) == [i \in 1..Len(s) |-> s[Len(s) + 1 - i]]
FirstN(s, n) == SubSeq(s, 1, IF Len(s) < n THEN Len(s) ELSE n)

\* Notes of the newest RecentLimit progress rows of a user's goals.
RecentProgress(u) ==
  LET mine == SelectSeq(progress, LAMBDA p : goals[p.goalId].userId = u)
      newest == FirstN(Reverse(mine), RecentLimit)
  IN  [i \in 1..Len(newest) |-> [notes |-> newest[i].notes]]

\* "- [ID: <id>] <title>: <description or 'No description'> (Status: <status>)"
GoalLine(g) ==
  [id |-> g.id, title |-> g.title,
   description |-> IF g.description = Null \/ g.description = "" THEN "No description"
                   ELSE g.description,
   status |-> IF g.status = Null \/ g.status = "" THEN "active" ELSE g.status]

goalsContext(gs) ==
  [header |-> "Active goals:", lines |-> [i \in 1..Len(gs) |-> GoalLine(gs[i])]]

progressContext(ps) ==
  [header |-> "Recent progress:", lines |-> [i \in 1..Len(ps) |-> [notes |-> ps[i].notes]]]

\* Array.prototype.unshift
Unshift(s, e) == <<e>> \o s

\* (the two unshifts in the other order: the goals directive ends up first)
EnhancedHistoryGoalsLast(history, ctx) ==
  LET h1 == IF Len(ctx.recentProgress) > 0
            THEN Unshift(history, SystemMessage(progressContext(ctx.recentProgress)))
            ELSE history
  IN  IF Len(ctx.goals) > 0
      THEN Unshift(h1, SystemMessage(goalsContext(ctx.goals)))
      ELSE h1

\* enhancedHistory: a copy of chatHistory with the goals directive put in
\* front of it, and then the progress directive in front of that.
EnhancedHistory(history, ctx) ==
  LET h1 == IF Len(ctx.goals) > 0
            THEN Unshift(history, SystemMessage(goalsContext(ctx.goals)))
            ELSE history
  IN  IF Len(ctx.recentProgress) > 0
      THEN Unshift(h1, SystemMessage(progressContext(ctx.recentProgress)))
      ELSE h1

(* ------------------------------------------------------------ REST routes *)
\* Each REST request is served between two chat requests: its writes are
\* single statements on the tables, and what a chat request finds in the
\* tables when one of its callbacks runs is the same either way.
\* POST /api/goals: a new goal owned by the caller, status active.
PostGoal(u, title) ==
  /\ pc = "idle"
  /\ u \in users
  /\ Truthy(title)
  /\ Len(goals) < MaxGoals
  /\ goals' = Append(goals, GoalRow(Len(goals) + 1, u, title, Null, "active", Null))
  /\ goalWriters' = Append(goalWriters, {})
  /\ UNCHANGED <<users, progress, agentVars>>

\* Bodies of PUT /api/goals/:goalId in the model.
PutBodies ==
  {[NoUpdate EXCEPT !.status = "completed"], [NoUpdate EXCEPT !.status = "paused"]}

\* The SET object PUT builds from its body.
PutSet(body) ==
  [title |-> IF Truthy(body.title) THEN body.title ELSE Absent,
   description |-> body.description,
   status |-> IF Truthy(body.status) THEN body.status ELSE Absent,
   targetDate |-> IF body.targetDate = Absent THEN Absent
                  ELSE IF Truthy(body.targetDate) THEN body.targetDate ELSE Null]

\* The look-up by which the REST routes verify that the goal is the caller's.
GoalOfUser(goalId, u) == {g \in GoalIds : goals[g].id = goalId /\ goals[g].userId = u}

\* PUT /api/goals/:goalId: 404 unless the goal is the caller's, then the
\* update of the row with that id. Goal rows are never deleted and never
\* change owner, so the look-up still holds when the update runs.
PutGoal(u, goalId, body) ==
  /\ pc = "idle"
  /\ u \in users
  /\ IF GoalOfUser(goalId, u) = {}
     THEN UNCHANGED <<goals, goalWriters>>
     ELSE LET hit == {g \in GoalIds : goals[g].id = goalId}
          IN  /\ goals' = [g \in GoalIds |->
                             IF g \in hit THEN Patched(goals[g], PutSet(body)) ELSE goals[g]]
              /\ goalWriters' = [g \in GoalIds |->
                                   IF g \in hit
                                   THEN goalWriters[g] \cup {[by |-> u, named |-> goalId]}
                                   ELSE goalWriters[g]]
  /\ UNCHANGED <<users, progress, agentVars>>

\* POST /api/goals/:goalId/progress: 400 without notes, 404 unless the goal
\* is the caller's, then the insert.
PostProgress(u, goalId, notes, sentiment) ==
  /\ pc = "idle"
  /\ u \in users
  /\ Len(progress) < MaxProgress
  /\ IF ~Truthy(notes) \/ GoalOfUser(goalId, u) = {}
     THEN UNCHANGED progress
     ELSE progress' = Append(progress, [goalId |-> goalId, notes |-> notes,
                                        sentiment |-> Stored(sentiment), by |-> u])
  /\ UNCHANGED <<users, goals, goalWriters, agentVars>>

(* ------------------------------------------------------------ agent loop *)
ToolCallEvent(call) ==
  [type |-> "tool_call", data |-> [name |-> call.name, args |-> call.args]]
ToolResultEvent(call, result) ==
  [type |-> "tool_result", data |-> [name |-> call.name, result |-> result]]
ContentEvent(content) == [type |-> "content", data |-> content]
DoneEvent == [type |-> "done"]

\* Responses of the decision pass: a content without tool calls, or tool calls
\* (the content that comes with tool calls is empty).
Responses ==
  {[content |-> c, tool_calls |-> <<>>] : c \in Contents}
  \cup {[content |-> "", tool_calls |-> calls] :
          calls \in SeqsUpTo(ToolCallChoices, MaxCalls) \ {<<>>}}

\* Responses of the follow-up pass: a content, with or without a tool call.
FinalResponses ==
  {[content |-> c, tool_calls |-> calls] :
     c \in Contents,
     calls \in {<<>>, <<ToolCall("create_goal", [NoArgs EXCEPT !.title = "t1"], "call_f")>>}}

NoResponse == [content |-> "", tool_calls |-> <<>>]
NoContext == [goals |-> <<>>, recentProgress |-> <<>>]

\* A model invocation: whether the tools are bound to the model invoked.
ModelCall(tools) == [tools |-> tools]

\* The call the for..of loop is at.
toolCall == response.tool_calls[idx]

\* The assistant turn echoing the tool-call requests, and a tool-result turn.
AIMessageWithToolCalls(content, calls) ==
  [role |-> "ai", content |-> [text |-> content], tool_calls |-> calls]
ToolMessage(content, id) == [role |-> "tool", content |-> content, tool_call_id |-> id]

\* response.content || ''
OrEmpty(content) == IF Truthy(content) THEN content ELSE ""

\* The prompt of the follow-up invocation for the user's input: the enhanced
\* history, the user turn, the assistant turn and the collected tool messages.
followUpHistory(input) ==
  enhancedHistory
    \o <<HumanMessage(input)>>
    \o <<AIMessageWithToolCalls(OrEmpty(response.content), response.tool_calls)>>
    \o [k \in 1..Len(toolMessages) |->
          ToolMessage(toolMessages[k].content, toolMessages[k].tool_call_id)]

\* (the content yielded unconditionally)
HasContentAlways(content) == TRUE
\* if (response.content): an empty content is falsy.
HasContent(content) == content # ""

\* (tool.func called without awaiting its promise)
PcAfterDispatchNoAwait == "after_result"
\* Where the generator is once tool.func has been called: it awaits the
\* promise, so it goes no further until the callback has settled.
PcAfterDispatch == "exec"

(* ----------------------------------------------------------- chat routes *)
\* Most conversations rows the conversations table holds in the model.
MaxConversations == 2
\* Most rows the messages table holds in the model.
MaxMessages == 4

\* A text as the chunks it is made of: '' has none, and += appends.
Text(s) == IF s = "" THEN <<>> ELSE <<s>>
Concat(a, b) == a \o b

\* The conversation id request bodies name. Whether it names a conversation
\* of the requesting user, one of another user or none at all depends on the
\* rows in the table when the request is served.
ConvRef == 1

\* A chat request: whether its bearer token validates and for which subject,
\* whether that subject holds chat:access, and the body's message and
\* conversationId (Absent and 0 when the body has none).
ChatRequest(valid, sub, perm, message, conversationId) ==
  [valid |-> valid, sub |-> sub, perm |-> perm, message |-> message,
   conversationId |-> conversationId]

ChatRequests ==
  {ChatRequest(v, u, p, m, c) :
     v \in BOOLEAN, u \in Users, p \in BOOLEAN, m \in {Absent, "", "m1"},
     c \in {0, ConvRef}}

NoRequest == ChatRequest(FALSE, "none", FALSE, Absent, 0)

\* The tables a chat request writes: the sizes of the two that only grow, and
\* the rows of the two whose rows tool calls also change.
Tables ==
  [conversations |-> Len(conversations), messages |-> Len(messages),
   goals |-> goals, progress |-> progress]
NoEntry == [conversations |-> 0, messages |-> 0, goals |-> <<>>, progress |-> <<>>]

(* ------------------------------------------------- side-by-side requests *)
\* The chat requests and the invocations that run side by side.
Procs == {1, 2}
Invocations == {1, 2}
MaxRounds == 2

\* The text of the message of process p's r-th request.
MessageOf(p, r) ==
  Text(<<<<"m11", "m12", "m13", "m14">>, <<"m21", "m22", "m23", "m24">>>>[p][r])

NoProc ==
  [at |-> "idle", sub |-> "", message |-> Text(""), conversationId |-> 0,
   conversation |-> 0, history |-> <<>>, prompt |-> <<>>, httpStatus |-> 0,
   round |-> 0]

\* this.prompt: the system prompt, the chat history and the human turn.
ChatPrompt(history, input) ==
  <<SystemMessage([text |-> Text("COACH_SYSTEM_PROMPT")])>>
    \o history \o <<HumanMessage(input)>>

\* The coachAgent singleton as constructed: a model without tools and the
\* prompt template.
CoachAgent ==
  [model |-> [name |-> "ChatOpenAI", tools |-> FALSE, by |-> "none"],
   prompt |-> "ChatPromptTemplate"]

\* model.bindTools(tools): a new runnable with the tools of the callbacks of
\* user u; the model it is called on stays as it is.
bindTools(model, u) == [model EXCEPT !.tools = TRUE, !.by = u]
\* (the tools bound to the model itself)
ModelBoundInPlace(model, u) == bindTools(model, u)
ModelAfterBind(model, u) == model

\* [...chatHistory] followed by unshift on the copy: the caller's array
\* stays as it is.
CallerArrayAfter(history, enhanced) == history

NoInvocation ==
  [at |-> "idle", user |-> "none", stored |-> <<>>, callerHistory |-> <<>>,
   enhancedHistory |-> <<>>, response |-> NoResponse, final |-> NoResponse,
   idx |-> 0, events |-> <<>>, results |-> <<>>, calls |-> <<>>,
   overlapped |-> FALSE]

(* ------------------------------------------------------ the stream's client *)
\* The events a response carries, and how many at most.
MaxEvents == 3
ClientEvents == {"e1", "e2"}

\* JSON.stringify(event) as bytes: never a line feed; the second event's text
\* has a character of two bytes.
Json(e) == IF e = "e1" THEN <<"{a", "a}">> ELSE <<"{", "c3", "a9", "}">>

\* `data: ${JSON.stringify(event)}\n\n`, encoded
Frame(e) == <<"da", "ta: ">> \o Json(e) \o <<"LF", "LF">>

RECURSIVE Framed(_)
Framed(evs) == IF evs = <<>> THEN <<>> ELSE Frame(Head(evs)) \o Framed(Tail(evs))

\* decoder.decode(value, {stream: true}): the characters of the bytes held
\* over and the chunk's; a lead byte at the end is held over.
RECURSIVE Chars(_)
Chars(bytes) ==
  IF bytes = <<>> THEN <<>>
  ELSE IF Head(bytes) = "c3" /\ Len(bytes) > 1 /\ bytes[2] = "a9"
       THEN <<"e-acute">> \o Chars(Tail(Tail(bytes)))
       ELSE IF Head(bytes) \in {"c3", "a9"}
            THEN <<"U+FFFD">> \o Chars(Tail(bytes))
            ELSE <<Head(bytes)>> \o Chars(Tail(bytes))

Decode(pending, chunk) ==
  LET bytes == pending \o chunk
      held == Len(bytes) > 0 /\ bytes[Len(bytes)] = "c3"
  IN  [out |-> Chars(IF held THEN SubSeq(bytes, 1, Len(bytes) - 1) ELSE bytes),
       pending |-> IF held THEN <<"c3">> ELSE <<>>]

\* buffer.split('\n')
RECURSIVE Split(_, _)
Split(chars, line) ==
  IF chars = <<>> THEN <<line>>
  ELSE IF Head(chars) = "LF" THEN <<line>> \o Split(Tail(chars), <<>>)
       ELSE Split(Tail(chars), Append(line, Head(chars)))

\* (the last line thrown away)
PopDropped(lines) == <<>>
\* lines.pop() || ''
Pop(lines) == lines[Len(lines)]

\* JSON.parse(data): the event of a whole JSON text; anything else throws.
Parses(data) == data \in {<<"{a", "a}">>, <<"{", "e-acute", "}">>}
JSONparse(data) == IF data = <<"{a", "a}">> THEN "e1" ELSE "e2"

\* The events the for..of loop over the lines yields.
RECURSIVE Yields(_)
Yields(lines) ==
  IF lines = <<>> THEN <<>>
  ELSE LET line == Head(lines)
           data == SubSeq(line, 3, Len(line))
       IN  (IF /\ Len(line) >= 2 /\ line[1] = "da" /\ line[2] = "ta: "
               /\ Len(data) > 0
               /\ Parses(data)
            THEN <<JSONparse(data)>> ELSE <<>>)
           \o Yields(Tail(lines))

NoClient ==
  [at |-> "idle", sent |-> <<>>, wire |-> <<>>, pending |-> <<>>,
   buffer |-> <<>>, yielded |-> <<>>, midFrame |-> FALSE]


Init ==
  /\ users = {}
  /\ goals = <<>>
  /\ progress = <<>>
  /\ goalWriters = <<>>
  /\ pc = "idle"
  /\ reqUser = "none"
  /\ chatHistory = <<>>
  /\ userContext = NoContext
  /\ enhancedHistory = <<>>
  /\ response = NoResponse
  /\ finalResponse = NoResponse
  /\ idx = 0
  /\ events = <<>>
  /\ toolMessages = <<>>
  /\ modelCalls = <<>>
  /\ inflight = {}
  /\ execLog = <<>>
  /\ raised = 0
  /\ conversations = <<>>
  /\ messages = <<>>
  /\ rpc = "idle"
  /\ request = NoRequest
  /\ conversation = 0
  /\ fullResponse = Text("")
  /\ frames = <<>>
  /\ httpStatus = 0
  /\ atEntry = NoEntry
  /\ returned = Absent
  /\ cancelledAt = "none"
  /\ reqs = [p \in Procs |-> NoProc]
  /\ client = NoClient
  /\ inv = [i \in Invocations |-> NoInvocation]
  /\ singleton = CoachAgent

\* The chat route, authorized for u, reads the context and calls
\* chatWithToolsStream, which assembles the enhanced history and invokes the
\* model with the tools bound.
StartChat(u, stored) ==
  /\ pc = "idle"
  /\ users' = users \cup {u}
  /\ reqUser' = u
  /\ chatHistory' = convertMessageHistory(stored)
  /\ userContext' = [goals |-> ActiveGoals(u), recentProgress |-> RecentProgress(u)]
  /\ enhancedHistory' = EnhancedHistory(chatHistory', userContext')
  /\ modelCalls' = <<ModelCall(TRUE)>>
  /\ pc' = "decision"
  /\ UNCHANGED <<goals, progress, goalWriters, response, finalResponse, idx,
                 events, toolMessages, inflight, execLog, raised>>

\* (the follow-up invocation made a second time)
LoopNextRetry(i) ==
  IF i < Len(response.tool_calls)
  THEN /\ idx' = i + 1
       /\ events' = Append(events, ToolCallEvent(response.tool_calls[i + 1]))
       /\ pc' = "after_call"
       /\ UNCHANGED modelCalls
  ELSE /\ pc' = "followup"
       /\ modelCalls' = modelCalls \o <<ModelCall(FALSE), ModelCall(FALSE)>>
       /\ UNCHANGED <<idx, events>>

\* The for..of loop after the call at position i: the next call's tool_call
\* event, or past the last call the follow-up invocation of the bare model.
LoopNext(i) ==
  IF i < Len(response.tool_calls)
  THEN /\ idx' = i + 1
       /\ events' = Append(events, ToolCallEvent(response.tool_calls[i + 1]))
       /\ pc' = "after_call"
       /\ UNCHANGED modelCalls
  ELSE /\ pc' = "followup"
       /\ modelCalls' = Append(modelCalls, ModelCall(FALSE))
       /\ UNCHANGED <<idx, events>>

\* chain.invoke resolves: the first tool_call event, or without tool calls
\* the content event when the content is truthy, else the done event.
DecisionReturns(calls, content) ==
  /\ pc = "decision"
  /\ response' = [content |-> content, tool_calls |-> calls]
  /\ IF Len(calls) > 0
     THEN /\ idx' = 1
          /\ events' = Append(events, ToolCallEvent(calls[1]))
          /\ pc' = "after_call"
     ELSE /\ idx' = idx
          /\ IF HasContent(content)
             THEN events' = Append(events, ContentEvent(content)) /\ pc' = "after_content"
             ELSE events' = Append(events, DoneEvent) /\ pc' = "after_done"
  /\ UNCHANGED <<dbVars, reqUser, chatHistory, userContext, enhancedHistory,
                 finalResponse, toolMessages, modelCalls, inflight, execLog, raised>>

\* chain.invoke rejects: the generator throws before any event.
DecisionFails ==
  /\ pc = "decision"
  /\ pc' = "failed"
  /\ UNCHANGED <<dbVars, reqUser, chatHistory, userContext, enhancedHistory,
                 response, finalResponse, idx, events, toolMessages, modelCalls,
                 inflight, execLog, raised>>

\* Resumed after a tool_call event: the tool is looked up by name and its
\* func called with the call's args as they are; a name no tool has is
\* passed over.
ResumeAfterCall ==
  /\ pc = "after_call"
  /\ IF FindTool(toolCall.name)
     THEN /\ pc' = PcAfterDispatch
          /\ inflight' = inflight \cup {idx}
          /\ execLog' = Append(execLog, idx)
          /\ UNCHANGED <<idx, events, modelCalls>>
     ELSE /\ LoopNext(idx)
          /\ UNCHANGED <<inflight, execLog>>
  /\ UNCHANGED <<dbVars, reqUser, chatHistory, userContext, enhancedHistory,
                 response, finalResponse, toolMessages, raised>>

\* The callback settles with a value: its writes are in the tables and the
\* tool_result event carries the serialized value.
ExecReturns ==
  /\ pc = "exec"
  /\ LET o == ToolFunc(toolCall, reqUser)
     IN  /\ ~o.threw
         /\ Fits(o)
         /\ goals' = o.goals
         /\ progress' = o.progress
         /\ goalWriters' = o.goalWriters
         /\ events' = Append(events, ToolResultEvent(toolCall, o.ret))
  /\ inflight' = inflight \ {idx}
  /\ pc' = "after_result"
  /\ UNCHANGED <<users, reqUser, chatHistory, userContext, enhancedHistory,
                 response, finalResponse, idx, toolMessages, modelCalls,
                 execLog, raised>>

\* (the rejection caught inside the loop, which goes on to the next call)
ExecThrowsContinue ==
  /\ pc = "exec"
  /\ ToolFunc(toolCall, reqUser).threw
  /\ raised' = idx
  /\ inflight' = inflight \ {idx}
  /\ LoopNext(idx)
  /\ UNCHANGED <<dbVars, reqUser, chatHistory, userContext, enhancedHistory,
                 response, finalResponse, toolMessages, execLog>>

\* The callback rejects: nothing in the loop catches it, so the generator
\* throws.
ExecThrows ==
  /\ pc = "exec"
  /\ ToolFunc(toolCall, reqUser).threw
  /\ raised' = idx
  /\ inflight' = inflight \ {idx}
  /\ pc' = "failed"
  /\ UNCHANGED <<dbVars, reqUser, chatHistory, userContext, enhancedHistory,
                 response, finalResponse, idx, events, toolMessages, modelCalls,
                 execLog>>

\* Resumed after a tool_result event: the result is kept for the follow-up
\* prompt under the call's id, and the loop goes on.
ResumeAfterResult ==
  /\ pc = "after_result"
  /\ toolMessages' =
       Append(toolMessages,
              [tool_call_id |-> IF Truthy(toolCall.id) THEN toolCall.id ELSE toolCall.name,
               name |-> toolCall.name,
               content |-> events[Len(events)].data.result])
  /\ LoopNext(idx)
  /\ UNCHANGED <<dbVars, reqUser, chatHistory, userContext, enhancedHistory,
                 response, finalResponse, inflight, execLog, raised>>

\* The follow-up invocation resolves: its content is yielded whatever it is,
\* and tool calls in it are not looked at.
FollowUpReturns(calls, content) ==
  /\ pc = "followup"
  /\ finalResponse' = [content |-> content, tool_calls |-> calls]
  /\ events' = Append(events, ContentEvent(content))
  /\ pc' = "after_content"
  /\ UNCHANGED <<dbVars, reqUser, chatHistory, userContext, enhancedHistory,
                 response, idx, toolMessages, modelCalls, inflight, execLog, raised>>

\* The follow-up invocation rejects.
FollowUpFails ==
  /\ pc = "followup"
  /\ pc' = "failed"
  /\ UNCHANGED <<dbVars, reqUser, chatHistory, userContext, enhancedHistory,
                 response, finalResponse, idx, events, toolMessages, modelCalls,
                 inflight, execLog, raised>>

\* Resumed after the content event: the done event.
ResumeAfterContent ==
  /\ pc = "after_content"
  /\ events' = Append(events, DoneEvent)
  /\ pc' = "after_done"
  /\ UNCHANGED <<dbVars, reqUser, chatHistory, userContext, enhancedHistory,
                 response, finalResponse, idx, toolMessages, modelCalls,
                 inflight, execLog, raised>>

\* Resumed after the done event: the generator returns.
ResumeAfterDone ==
  /\ pc = "after_done"
  /\ pc' = "finished"
  /\ UNCHANGED <<dbVars, reqUser, chatHistory, userContext, enhancedHistory,
                 response, finalResponse, idx, events, toolMessages, modelCalls,
                 inflight, execLog, raised>>

\* The request is over; the next one starts from a fresh invocation.
EndRequest ==
  /\ pc \in {"finished", "failed"}
  /\ pc' = "idle"
  /\ reqUser' = "none"
  /\ chatHistory' = <<>>
  /\ userContext' = NoContext
  /\ enhancedHistory' = <<>>
  /\ response' = NoResponse
  /\ finalResponse' = NoResponse
  /\ idx' = 0
  /\ events' = <<>>
  /\ toolMessages' = <<>>
  /\ modelCalls' = <<>>
  /\ inflight' = {}
  /\ execLog' = <<>>
  /\ raised' = 0
  /\ UNCHANGED dbVars

(* -------------------------------------------------- streaming chat route *)
\* A messages row; by is the subject whose request inserted it.
Message(conversationId, role, content, by) ==
  [conversationId |-> conversationId, role |-> role, content |-> content, by |-> by]

\* `data: ${JSON.stringify(event)}\n\n`
SSEFrame(event) == [data |-> event]
ConversationIdEvent(id) == [type |-> "conversation_id", data |-> [conversationId |-> id]]
ErrorEvent == [type |-> "error", data |-> [message |-> "Failed to process message"]]

\* validateAuth0Token: whether the bearer token validates.
TokenValid(r) == r.valid

\* (the permission taken as held by every subject)
HoldsPermissionAlways(r) == TRUE
\* checkPermission(token, 'chat:access')
HoldsPermission(r) == r.perm

\* (only a body without a message counts as missing one)
MessageMissingUndefinedOnly(message) == message = Absent
\* if (!message): undefined and '' are falsy.
MessageMissing(message) == ~Truthy(message)

\* (the look-up by id alone)
AnyConversation(id, u) == {c \in 1..Len(conversations) : conversations[c].id = id}
\* The conversation look-up: by id and by the requesting user's ownership.
OwnConversation(id, u) ==
  {c \in 1..Len(conversations) :
     conversations[c].id = id /\ conversations[c].userId = u}

\* The messages of a conversation in creation order, as role and content.
History(c) ==
  LET rows == SelectSeq(messages, LAMBDA m : m.conversationId = c)
  IN  [i \in 1..Len(rows) |-> [role |-> rows[i].role, content |-> rows[i].content]]

\* history.slice(0, -1)
AllButLast(s) == SubSeq(s, 1, Len(s) - 1)

\* (fullResponse left as it is)
FullResponseKept(full, event) == full
\* if (event.type === 'content') fullResponse += event.data
FullResponseAfter(full, event) ==
  IF event.type = "content" THEN Concat(full, Text(event.data)) ELSE full

\* A chat request comes in. The tables have room for what it may insert.
RouteRequest(r) ==
  /\ rpc = "idle"
  /\ pc = "idle"
  /\ Len(messages) + 2 <= MaxMessages
  /\ r.conversationId = 0 => Len(conversations) < MaxConversations
  /\ request' = r
  /\ atEntry' = Tables
  /\ rpc' = "auth"
  /\ UNCHANGED <<dbVars, agentVars, conversations, messages, conversation,
                 fullResponse, frames, httpStatus, returned>>

\* The response of a request turned away with an HTTP status.
Respond(code) == rpc' = "responded" /\ httpStatus' = code

\* validateAuth0Token, and 401 on its error.
ValidateToken ==
  /\ rpc = "auth"
  /\ IF TokenValid(request) THEN rpc' = "perm" /\ httpStatus' = httpStatus ELSE Respond(401)
  /\ UNCHANGED <<dbVars, agentVars, conversations, messages, request,
                 conversation, fullResponse, frames, atEntry, returned>>

\* checkPermission, and 403 without the permission.
CheckPermission ==
  /\ rpc = "perm"
  /\ IF HoldsPermission(request) THEN rpc' = "user" /\ httpStatus' = httpStatus ELSE Respond(403)
  /\ UNCHANGED <<dbVars, agentVars, conversations, messages, request,
                 conversation, fullResponse, frames, atEntry, returned>>

\* getOrCreateUser: the subject's users row is there afterwards.
GetOrCreateUser ==
  /\ rpc = "user"
  /\ users' = users \cup {request.sub}
  /\ rpc' = "body"
  /\ UNCHANGED <<goals, progress, goalWriters, agentVars, conversations,
                 messages, request, conversation, fullResponse, frames, httpStatus,
                 atEntry, returned>>

\* The body is read, and 400 without a message.
CheckMessage ==
  /\ rpc = "body"
  /\ IF MessageMissing(request.message) THEN Respond(400) ELSE rpc' = "conv" /\ httpStatus' = httpStatus
  /\ UNCHANGED <<dbVars, agentVars, conversations, messages, request,
                 conversation, fullResponse, frames, atEntry, returned>>

\* With a conversationId the conversation is looked up, and 404 when the
\* look-up finds none; without one a conversation of the user is inserted.
FindOrCreateConversation ==
  /\ rpc = "conv"
  /\ IF request.conversationId # 0
     THEN LET found == OwnConversation(request.conversationId, request.sub)
          IN  /\ IF found = {}
                 THEN Respond(404) /\ conversation' = conversation
                 ELSE /\ conversation' = conversations[CHOOSE c \in found : TRUE].id
                      /\ rpc' = "save"
                      /\ httpStatus' = httpStatus
              /\ UNCHANGED conversations
     ELSE /\ conversations' =
               Append(conversations,
                      [id |-> Len(conversations) + 1, userId |-> request.sub])
          /\ conversation' = Len(conversations) + 1
          /\ rpc' = "save"
          /\ httpStatus' = httpStatus
  /\ UNCHANGED <<dbVars, agentVars, messages, request, fullResponse, frames,
                 atEntry, returned>>

\* The user's message is inserted.
SaveUserMessage ==
  /\ rpc = "save"
  /\ messages' =
       Append(messages,
              Message(conversation, "user", Text(request.message), request.sub))
  /\ rpc' = "context"
  /\ UNCHANGED <<dbVars, agentVars, conversations, request, conversation,
                 fullResponse, frames, httpStatus, atEntry, returned>>

\* The history and the context are read, the stream is created and its start
\* begins to iterate chatWithToolsStream over the history without its last
\* message; the response carrying the stream has status 200.
StreamStart ==
  /\ rpc = "context"
  /\ StartChat(request.sub, AllButLast(History(conversation)))
  /\ rpc' = "streaming"
  /\ httpStatus' = 200
  /\ UNCHANGED <<conversations, messages, request, conversation, fullResponse,
                 frames, atEntry, returned>>

\* Every event yielded has been enqueued: the for await loop asks the
\* generator for its next event only then.
Relayed == Len(frames) = Len(events)

\* The body of the for await loop: the event is enqueued as a frame and a
\* content event's data is accumulated.
Relay ==
  /\ rpc = "streaming"
  /\ Len(frames) < Len(events)
  /\ LET event == events[Len(frames) + 1]
     IN  /\ frames' = Append(frames, SSEFrame(event))
         /\ fullResponse' = FullResponseAfter(fullResponse, event)
  /\ UNCHANGED <<dbVars, agentVars, conversations, messages, rpc, request,
                 conversation, httpStatus, atEntry, returned>>

\* The loop has ended with the generator's return: the assistant message is
\* inserted with the accumulated content.
SaveAssistantMessage ==
  /\ rpc = "streaming"
  /\ pc = "finished"
  /\ messages' =
       Append(messages,
              Message(conversation, "assistant", fullResponse, request.sub))
  /\ rpc' = "saved"
  /\ UNCHANGED <<dbVars, agentVars, conversations, request, conversation,
                 fullResponse, frames, httpStatus, atEntry, returned>>

\* (the stream closed without the conversation_id event)
SendConversationIdSkipped ==
  /\ rpc = "saved"
  /\ rpc' = "closed"
  /\ UNCHANGED <<dbVars, agentVars, conversations, messages, request,
                 conversation, fullResponse, frames, httpStatus, atEntry, returned>>

\* The conversation_id event is enqueued and the stream closed.
SendConversationId ==
  /\ rpc = "saved"
  /\ frames' = Append(frames, SSEFrame(ConversationIdEvent(conversation)))
  /\ rpc' = "closed"
  /\ UNCHANGED <<dbVars, agentVars, conversations, messages, request,
                 conversation, fullResponse, httpStatus, atEntry, returned>>

\* (the stream closed without an error event)
StreamCatchSilent ==
  /\ rpc = "streaming"
  /\ pc = "failed"
  /\ rpc' = "closed"
  /\ UNCHANGED <<dbVars, agentVars, conversations, messages, request,
                 conversation, fullResponse, frames, httpStatus, atEntry, returned>>
\* The generator has thrown: the catch enqueues the error event and closes
\* the stream.
StreamCatch ==
  /\ rpc = "streaming"
  /\ pc = "failed"
  /\ frames' = Append(frames, SSEFrame(ErrorEvent))
  /\ rpc' = "closed"
  /\ UNCHANGED <<dbVars, agentVars, conversations, messages, request,
                 conversation, fullResponse, httpStatus, atEntry, returned>>

\* The request has been answered; the route serves the next one.
RouteEnd ==
  /\ \/ rpc = "responded" /\ UNCHANGED <<dbVars, agentVars>>
     \/ rpc = "closed" /\ EndRequest
  /\ rpc' = "idle"
  /\ request' = NoRequest
  /\ conversation' = 0
  /\ fullResponse' = Text("")
  /\ frames' = <<>>
  /\ httpStatus' = 0
  /\ atEntry' = NoEntry
  /\ UNCHANGED <<conversations, messages, returned>>

\* Tool calls of the responses the streaming route is checked with: one that
\* inserts a goal and one whose callback rejects (notes is NOT NULL).
StreamToolCalls ==
  { ToolCall("create_goal", [NoArgs EXCEPT !.title = "t1"], "call_c"),
    ToolCall("add_progress", [NoArgs EXCEPT !.goalId = GoalRef], "call_n") }

StreamResponses ==
  {[content |-> c, tool_calls |-> <<>>] : c \in Contents}
  \cup {[content |-> "", tool_calls |-> calls] :
          calls \in SeqsUpTo(StreamToolCalls, MaxCalls) \ {<<>>}}

\* The streaming chat route serving one request at a time: the generator is
\* resumed past a yield only when the loop body has handled the event.
StreamNext ==
  \/ \E r \in ChatRequests : RouteRequest(r) /\ UNCHANGED auxVars
  \/ ValidateToken /\ UNCHANGED auxVars
  \/ CheckPermission /\ UNCHANGED auxVars
  \/ GetOrCreateUser /\ UNCHANGED auxVars
  \/ CheckMessage /\ UNCHANGED auxVars
  \/ FindOrCreateConversation /\ UNCHANGED auxVars
  \/ SaveUserMessage /\ UNCHANGED auxVars
  \/ StreamStart /\ UNCHANGED auxVars
  \/ (\E r \in StreamResponses : DecisionReturns(r.tool_calls, r.content)) /\ UNCHANGED routeVars /\ UNCHANGED auxVars
  \/ DecisionFails /\ UNCHANGED routeVars /\ UNCHANGED auxVars
  \/ Relay /\ UNCHANGED auxVars
  \/ Relayed /\ ResumeAfterCall /\ UNCHANGED routeVars /\ UNCHANGED auxVars
  \/ ExecReturns /\ UNCHANGED routeVars /\ UNCHANGED auxVars
  \/ ExecThrows /\ UNCHANGED routeVars /\ UNCHANGED auxVars
  \/ Relayed /\ ResumeAfterResult /\ UNCHANGED routeVars /\ UNCHANGED auxVars
  \/ (\E r \in FinalResponses : FollowUpReturns(r.tool_calls, r.content)) /\ UNCHANGED routeVars /\ UNCHANGED auxVars
  \/ FollowUpFails /\ UNCHANGED routeVars /\ UNCHANGED auxVars
  \/ Relayed /\ ResumeAfterContent /\ UNCHANGED routeVars /\ UNCHANGED auxVars
  \/ Relayed /\ ResumeAfterDone /\ UNCHANGED routeVars /\ UNCHANGED auxVars
  \/ SaveAssistantMessage /\ UNCHANGED auxVars
  \/ SendConversationId /\ UNCHANGED auxVars
  \/ StreamCatch /\ UNCHANGED auxVars
  \/ RouteEnd /\ UNCHANGED auxVars

StreamSpec == Init /\ [][StreamNext]_vars

(* ------------------------------------------------- non-streaming variant *)
\* The non-streaming chat route, authorized for u, reads the context and
\* calls chatWithTools, which assembles the enhanced history, binds the tools
\* built from the callbacks to the model and invokes the chain.
StartChatWithTools(u, stored) ==
  /\ pc = "idle"
  /\ users' = users \cup {u}
  /\ reqUser' = u
  /\ chatHistory' = convertMessageHistory(stored)
  /\ userContext' = [goals |-> ActiveGoals(u), recentProgress |-> RecentProgress(u)]
  /\ enhancedHistory' = EnhancedHistory(chatHistory', userContext')
  /\ modelCalls' = <<ModelCall(TRUE)>>
  /\ pc' = "invoke"
  /\ UNCHANGED <<goals, progress, goalWriters, response, finalResponse, idx,
                 events, toolMessages, inflight, execLog, raised, routeVars>>

\* chain.invoke resolves: chatWithTools returns the response's content; the
\* response's tool calls are not looked at.
ChatWithToolsReturns(calls, content) ==
  /\ pc = "invoke"
  /\ response' = [content |-> content, tool_calls |-> calls]
  /\ returned' = content
  /\ pc' = "returned"
  /\ UNCHANGED <<dbVars, reqUser, chatHistory, userContext, enhancedHistory,
                 finalResponse, idx, events, toolMessages, modelCalls, inflight,
                 execLog, raised, conversations, messages, rpc, request,
                 conversation, fullResponse, frames, httpStatus, atEntry>>

\* chain.invoke rejects: so does chatWithTools.
ChatWithToolsFails ==
  /\ pc = "invoke"
  /\ pc' = "failed"
  /\ UNCHANGED <<dbVars, reqUser, chatHistory, userContext, enhancedHistory,
                 response, finalResponse, idx, events, toolMessages, modelCalls,
                 inflight, execLog, raised, routeVars>>

\* The call is over; the next one starts from a fresh invocation.
EndChatWithTools ==
  /\ pc \in {"returned", "failed"}
  /\ pc' = "idle"
  /\ reqUser' = "none"
  /\ chatHistory' = <<>>
  /\ userContext' = NoContext
  /\ enhancedHistory' = <<>>
  /\ response' = NoResponse
  /\ modelCalls' = <<>>
  /\ returned' = Absent
  /\ UNCHANGED <<dbVars, finalResponse, idx, events, toolMessages, inflight,
                 execLog, raised, conversations, messages, rpc, request,
                 conversation, fullResponse, frames, httpStatus, atEntry>>

\* Requests served by chatWithTools, between REST requests that write the
\* tables its context is read from.
ToolsNext ==
  \/ (\E u \in Users : PostGoal(u, "t1")) /\ UNCHANGED routeVars /\ UNCHANGED auxVars
  \/ (\E u \in Users : PostProgress(u, GoalRef, "n1", Absent)) /\ UNCHANGED routeVars /\ UNCHANGED auxVars
  \/ \E u \in Users, h \in StoredHistories : StartChatWithTools(u, h) /\ UNCHANGED auxVars
  \/ \E r \in Responses : ChatWithToolsReturns(r.tool_calls, r.content) /\ UNCHANGED auxVars
  \/ ChatWithToolsFails /\ UNCHANGED auxVars
  \/ EndChatWithTools /\ UNCHANGED auxVars

ToolsSpec == Init /\ [][ToolsNext]_vars

(* ------------------------------------------------- tool calls on their own *)
\* Most goal rows in the table create_goal calls are applied to.
MaxCreated == 2
\* Most goal rows in the table update_goal calls are applied to.
MaxUpdated == 1

\* create_goal calls: a title, with and without description (empty or not)
\* and target date.
CreateCalls ==
  {ToolCall("create_goal",
            [NoArgs EXCEPT !.title = "t1", !.description = d, !.targetDate = t],
            "call_c") :
     d \in {Absent, "", "d1"}, t \in {Absent, "2025-01-01"}}

\* update_goal calls: every subset of the four fields supplied, the strings
\* among them empty or not.
UpdateCalls ==
  {ToolCall("update_goal",
            [NoArgs EXCEPT !.goalId = GoalRef, !.title = ti, !.description = d,
                           !.status = st, !.targetDate = t],
            "call_u") :
     ti \in {Absent, "", "t2"}, d \in {Absent, "", "d2"},
     st \in {Absent, "completed"}, t \in {Absent, "2025-01-01"}}

\* tool.func(toolCall.args) of a call of a request of user u, taken on its
\* own: the callback's writes are in the tables when it resolves.
InvokeTool(u, call, room) ==
  /\ pc = "idle"
  /\ LET o == ToolFunc(call, u)
     IN  /\ ~o.threw
         /\ Len(o.goals) <= room
         /\ goals' = o.goals
         /\ progress' = o.progress
         /\ goalWriters' = o.goalWriters
  /\ reqUser' = u
  /\ response' = [content |-> "", tool_calls |-> <<call>>]
  /\ idx' = 1
  /\ UNCHANGED <<users, pc, chatHistory, userContext, enhancedHistory,
                 finalResponse, events, toolMessages, modelCalls, inflight,
                 execLog, raised, routeVars>>

CreateNext ==
  \E u \in Users, c \in CreateCalls :
    InvokeTool(u, c, MaxCreated) /\ UNCHANGED auxVars

CreateSpec == Init /\ [][CreateNext]_vars

UpdateNext ==
  \E u \in Users :
    \E c \in UpdateCalls \cup {ToolCall("create_goal", [NoArgs EXCEPT !.title = "t1"], "call_c")} :
      InvokeTool(u, c, MaxUpdated) /\ UNCHANGED auxVars

UpdateSpec == Init /\ [][UpdateNext]_vars

(* ------------------------------------------------ the writers of a status *)
\* The status values callers send: the four the application names, and one
\* that it does not.
StatusValues == {"active", "completed", "paused", "abandoned", "done"}
StatusBodies == {[NoUpdate EXCEPT !.status = v] : v \in StatusValues}
StatusCalls ==
  {ToolCall("create_goal", [NoArgs EXCEPT !.title = "t1"], "call_c")}
  \cup {ToolCall("update_goal", [NoArgs EXCEPT !.goalId = GoalRef, !.status = v], "call_u") :
          v \in {"active", "completed", "abandoned"}}

\* The create_goal and update_goal tool calls and POST and PUT /api/goals, in
\* any order, by users a first request has registered.
StatusNext ==
  \/ (\E u \in Users : StartChat(u, <<>>)) /\ UNCHANGED <<routeVars, auxVars>>
  \/ DecisionFails /\ UNCHANGED <<routeVars, auxVars>>
  \/ EndRequest /\ UNCHANGED <<routeVars, auxVars>>
  \/ (\E u \in Users : PostGoal(u, "t1")) /\ UNCHANGED <<routeVars, auxVars>>
  \/ (\E u \in Users, b \in StatusBodies : PutGoal(u, GoalRef, b))
       /\ UNCHANGED <<routeVars, auxVars>>
  \/ \E u \in Users, c \in StatusCalls :
       u \in users /\ InvokeTool(u, c, MaxGoals) /\ UNCHANGED auxVars

StatusSpec == Init /\ [][StatusNext]_vars

(* ------------------------------------------ the stream with a steady consumer *)
\* Requests that pass the checks before the stream, and the number of goals
\* the calls of a response insert.
LiveRequests ==
  {r \in ChatRequests : TokenValid(r) /\ HoldsPermission(r) /\ ~MessageMissing(r.message)}
Creates(calls) == Cardinality({k \in 1..Len(calls) : calls[k].name = "create_goal"})

\* The streaming chat route for requests that reach the stream: every
\* awaited call settles and the consumer keeps reading. The responses are
\* those whose inserts the goals table has room for.
StreamLiveNext ==
  \/ \E r \in LiveRequests : RouteRequest(r) /\ UNCHANGED auxVars
  \/ ValidateToken /\ UNCHANGED auxVars
  \/ CheckPermission /\ UNCHANGED auxVars
  \/ GetOrCreateUser /\ UNCHANGED auxVars
  \/ CheckMessage /\ UNCHANGED auxVars
  \/ FindOrCreateConversation /\ UNCHANGED auxVars
  \/ SaveUserMessage /\ UNCHANGED auxVars
  \/ StreamStart /\ UNCHANGED auxVars
  \/ (\E r \in StreamResponses :
        /\ Len(goals) + Creates(r.tool_calls) <= MaxGoals
        /\ DecisionReturns(r.tool_calls, r.content))
       /\ UNCHANGED <<routeVars, auxVars>>
  \/ DecisionFails /\ UNCHANGED <<routeVars, auxVars>>
  \/ Relay /\ UNCHANGED auxVars
  \/ Relayed /\ ResumeAfterCall /\ UNCHANGED <<routeVars, auxVars>>
  \/ ExecReturns /\ UNCHANGED <<routeVars, auxVars>>
  \/ ExecThrows /\ UNCHANGED <<routeVars, auxVars>>
  \/ Relayed /\ ResumeAfterResult /\ UNCHANGED <<routeVars, auxVars>>
  \/ (\E r \in FinalResponses : FollowUpReturns(r.tool_calls, r.content))
       /\ UNCHANGED <<routeVars, auxVars>>
  \/ FollowUpFails /\ UNCHANGED <<routeVars, auxVars>>
  \/ Relayed /\ ResumeAfterContent /\ UNCHANGED <<routeVars, auxVars>>
  \/ Relayed /\ ResumeAfterDone /\ UNCHANGED <<routeVars, auxVars>>
  \/ SaveAssistantMessage /\ UNCHANGED auxVars
  \/ SendConversationId /\ UNCHANGED auxVars
  \/ StreamCatch /\ UNCHANGED auxVars
  \/ RouteEnd /\ UNCHANGED auxVars

\* The event loop runs every continuation that is ready.
StreamLiveSpec == Init /\ [][StreamLiveNext]_vars /\ WF_vars(StreamLiveNext)

(* ------------------------------------------------- the consumer leaves early *)
\* The yield points of chatWithToolsStream: the generator is suspended there
\* while the loop body handles the event.
YieldPoints == {"after_call", "after_result", "after_content", "after_done"}

\* (the generator ended the moment the consumer leaves)
ConsumerCancelsKilling ==
  /\ rpc = "streaming"
  /\ cancelledAt = "none"
  /\ pc \notin {"finished", "failed"}
  /\ cancelledAt' = pc
  /\ pc' = "terminated"
  /\ rpc' = "aborted"
  /\ UNCHANGED <<dbVars, reqUser, chatHistory, userContext, enhancedHistory,
                 response, finalResponse, idx, events, toolMessages, modelCalls,
                 inflight, execLog, raised, conversations, messages, request,
                 conversation, fullResponse, frames, httpStatus, atEntry,
                 returned, reqs, client, inv, singleton>>

\* The consumer abandons the response: the stream is cancelled. start() is
\* not told (the stream has no cancel handler); the generator stays where it
\* is, and an awaited model call or tool callback goes on.
ConsumerCancels ==
  /\ rpc = "streaming"
  /\ cancelledAt = "none"
  /\ cancelledAt' = pc
  /\ UNCHANGED <<dbVars, agentVars, routeVars, reqs, client, inv, singleton>>

\* controller.enqueue throws on the cancelled stream. In the loop body the
\* throw leaves the for await, which calls the generator's return() at the
\* yield it is suspended at; the catch's own enqueue throws again and start()
\* rejects. After the loop (the assistant message is inserted by then) and in
\* the catch the generator is over already.
EnqueueThrows ==
  /\ cancelledAt # "none"
  /\ \/ /\ rpc = "streaming"
        /\ Len(frames) < Len(events)
        /\ pc \in YieldPoints
        /\ pc' = "terminated"
     \/ /\ rpc = "saved"
        /\ pc' = pc
     \/ /\ rpc = "streaming"
        /\ pc = "failed"
        /\ pc' = pc
  /\ rpc' = "aborted"
  /\ UNCHANGED <<dbVars, reqUser, chatHistory, userContext, enhancedHistory,
                 response, finalResponse, idx, events, toolMessages, modelCalls,
                 inflight, execLog, raised, conversations, messages, request,
                 conversation, fullResponse, frames, httpStatus, atEntry,
                 returned, auxVars>>

\* The abandoned request is over; the route serves the next one.
AbortEnd ==
  /\ rpc = "aborted"
  /\ pc' = "idle"
  /\ reqUser' = "none"
  /\ chatHistory' = <<>>
  /\ userContext' = NoContext
  /\ enhancedHistory' = <<>>
  /\ response' = NoResponse
  /\ finalResponse' = NoResponse
  /\ idx' = 0
  /\ events' = <<>>
  /\ toolMessages' = <<>>
  /\ modelCalls' = <<>>
  /\ inflight' = {}
  /\ execLog' = <<>>
  /\ raised' = 0
  /\ rpc' = "idle"
  /\ request' = NoRequest
  /\ conversation' = 0
  /\ fullResponse' = Text("")
  /\ frames' = <<>>
  /\ httpStatus' = 0
  /\ atEntry' = NoEntry
  /\ cancelledAt' = "none"
  /\ UNCHANGED <<dbVars, conversations, messages, returned, reqs, client, inv,
                 singleton>>

\* The streaming chat route with a consumer that may leave: nothing is
\* enqueued on a cancelled stream.
AbandonNext ==
  \/ \E r \in ChatRequests : RouteRequest(r) /\ UNCHANGED auxVars
  \/ ValidateToken /\ UNCHANGED auxVars
  \/ CheckPermission /\ UNCHANGED auxVars
  \/ GetOrCreateUser /\ UNCHANGED auxVars
  \/ CheckMessage /\ UNCHANGED auxVars
  \/ FindOrCreateConversation /\ UNCHANGED auxVars
  \/ SaveUserMessage /\ UNCHANGED auxVars
  \/ StreamStart /\ UNCHANGED auxVars
  \/ (\E r \in StreamResponses : DecisionReturns(r.tool_calls, r.content))
       /\ UNCHANGED <<routeVars, auxVars>>
  \/ DecisionFails /\ UNCHANGED <<routeVars, auxVars>>
  \/ cancelledAt = "none" /\ Relay /\ UNCHANGED auxVars
  \/ Relayed /\ ResumeAfterCall /\ UNCHANGED <<routeVars, auxVars>>
  \/ ExecReturns /\ UNCHANGED <<routeVars, auxVars>>
  \/ ExecThrows /\ UNCHANGED <<routeVars, auxVars>>
  \/ Relayed /\ ResumeAfterResult /\ UNCHANGED <<routeVars, auxVars>>
  \/ (\E r \in FinalResponses : FollowUpReturns(r.tool_calls, r.content))
       /\ UNCHANGED <<routeVars, auxVars>>
  \/ FollowUpFails /\ UNCHANGED <<routeVars, auxVars>>
  \/ Relayed /\ ResumeAfterContent /\ UNCHANGED <<routeVars, auxVars>>
  \/ Relayed /\ ResumeAfterDone /\ UNCHANGED <<routeVars, auxVars>>
  \/ SaveAssistantMessage /\ UNCHANGED auxVars
  \/ cancelledAt = "none" /\ SendConversationId /\ UNCHANGED auxVars
  \/ cancelledAt = "none" /\ StreamCatch /\ UNCHANGED auxVars
  \/ RouteEnd /\ UNCHANGED auxVars
  \/ ConsumerCancels
  \/ EnqueueThrows
  \/ AbortEnd

AbandonSpec == Init /\ [][AbandonNext]_vars

(* ------------------------------------- chatWithToolsStream side by side *)
pairOther ==
  <<agentVars, routeVars, cancelledAt, reqs, client>>

\* Whether an invocation other than i is between its start and its end.
OtherBusy(i) == \E j \in Invocations \ {i} : inv[j].at \notin {"idle", "finished"}

\* The responses of the two passes the invocations are run with.
PairCalls ==
  { <<ToolCall("create_goal", [NoArgs EXCEPT !.title = "t1"], "call_c")>>,
    <<ToolCall("list_goals", NoArgs, "call_l")>>,
    <<ToolCall("create_goal", [NoArgs EXCEPT !.title = "t1"], "call_c"),
      ToolCall("list_goals", NoArgs, "call_l")>> }
PairResponses ==
  {[content |-> c, tool_calls |-> <<>>] : c \in Contents}
  \cup {[content |-> "", tool_calls |-> calls] : calls \in PairCalls}

\* Invocation i is called for user u: the history is copied and the context
\* put in front of the copy, the tools are bound, and the chain is invoked.
PairStart(i, u, stored) ==
  /\ inv[i].at = "idle"
  /\ LET history == convertMessageHistory(stored)
         ctx == [goals |-> ActiveGoals(u), recentProgress |-> RecentProgress(u)]
         enhanced == EnhancedHistory(history, ctx)
     IN  inv' = [inv EXCEPT ![i] =
           [NoInvocation EXCEPT !.at = "decision", !.user = u, !.stored = stored,
                                !.callerHistory = CallerArrayAfter(history, enhanced),
                                !.enhancedHistory = enhanced,
                                !.calls = <<bindTools(singleton.model, u)>>,
                                !.overlapped = OtherBusy(i)]]
  /\ singleton' = [singleton EXCEPT !.model = ModelAfterBind(singleton.model, u)]
  /\ users' = users \cup {u}
  /\ UNCHANGED <<goals, progress, goalWriters, pairOther>>

\* The decision pass returns to invocation i, which yields its first event.
PairDecisionReturns(i, r) ==
  /\ inv[i].at = "decision"
  /\ inv' = [inv EXCEPT ![i] =
       [@ EXCEPT !.response = r,
                 !.idx = IF Len(r.tool_calls) > 0 THEN 1 ELSE 0,
                 !.events =
                    IF Len(r.tool_calls) > 0 THEN <<ToolCallEvent(r.tool_calls[1])>>
                    ELSE IF HasContent(r.content) THEN <<ContentEvent(r.content)>>
                    ELSE <<DoneEvent>>,
                 !.at = IF Len(r.tool_calls) > 0 THEN "after_call"
                        ELSE IF HasContent(r.content) THEN "after_content"
                        ELSE "after_done",
                 !.overlapped = @ \/ OtherBusy(i)]]
  /\ UNCHANGED <<dbVars, singleton, pairOther>>

\* The consumer of invocation i calls next(): the generator runs on from the
\* yield it is at to its next await or yield.
PairResume(i) ==
  /\ inv[i].at \in {"after_call", "after_result", "after_content", "after_done"}
  /\ LET x == inv[i]
         calls == x.response.tool_calls
     IN  inv' = [inv EXCEPT ![i] =
           CASE x.at = "after_call" -> [x EXCEPT !.at = "exec"]
             [] x.at = "after_result" /\ x.idx < Len(calls) ->
                  [x EXCEPT !.idx = x.idx + 1,
                            !.events = Append(x.events, ToolCallEvent(calls[x.idx + 1])),
                            !.at = "after_call",
                            !.overlapped = @ \/ OtherBusy(i)]
             [] x.at = "after_result" /\ x.idx >= Len(calls) ->
                  [x EXCEPT !.at = "followup",
                            !.calls = Append(x.calls, singleton.model),
                            !.overlapped = @ \/ OtherBusy(i)]
             [] x.at = "after_content" ->
                  [x EXCEPT !.events = Append(x.events, DoneEvent), !.at = "after_done"]
             [] OTHER -> [x EXCEPT !.at = "finished"]]
  /\ UNCHANGED <<dbVars, singleton, pairOther>>

\* The tool callback of invocation i's call returns: it ran for the
\* invocation's user, and its result is yielded.
PairExecReturns(i) ==
  /\ inv[i].at = "exec"
  /\ LET x == inv[i]
         call == x.response.tool_calls[x.idx]
         o == ToolFunc(call, x.user)
     IN  /\ ~o.threw
         /\ Fits(o)
         /\ goals' = o.goals
         /\ progress' = o.progress
         /\ goalWriters' = o.goalWriters
         /\ inv' = [inv EXCEPT ![i] =
               [x EXCEPT !.events = Append(x.events, ToolResultEvent(call, o.ret)),
                         !.results = Append(x.results, o.ret),
                         !.at = "after_result",
                         !.overlapped = @ \/ OtherBusy(i)]]
  /\ UNCHANGED <<users, singleton, pairOther>>

\* The follow-up pass returns to invocation i, which yields the content.
PairFollowUpReturns(i, content) ==
  /\ inv[i].at = "followup"
  /\ inv' = [inv EXCEPT ![i] =
       [@ EXCEPT !.final = [content |-> content, tool_calls |-> <<>>],
                 !.events = Append(@, ContentEvent(content)),
                 !.at = "after_content"]]
  /\ UNCHANGED <<dbVars, singleton, pairOther>>

\* Invocation i has returned and its caller is done with it.
PairEnd(i) ==
  /\ inv[i].at = "finished"
  /\ inv' = [inv EXCEPT ![i] = NoInvocation]
  /\ UNCHANGED <<dbVars, singleton, pairOther>>

PairNext ==
  \/ \E i \in Invocations, u \in Users, h \in StoredHistories : PairStart(i, u, h)
  \/ \E i \in Invocations, r \in PairResponses : PairDecisionReturns(i, r)
  \/ \E i \in Invocations : PairResume(i)
  \/ \E i \in Invocations : PairExecReturns(i)
  \/ \E i \in Invocations : PairFollowUpReturns(i, "c1")
  \/ \E i \in Invocations : PairEnd(i)

PairSpec == Init /\ [][PairNext]_vars

(* -------------------------------------------- chat requests side by side *)
\* What the steps of a request up to its prompt leave alone.
concOther ==
  <<goals, progress, goalWriters, agentVars, rpc, request, conversation,
    fullResponse, frames, httpStatus, atEntry, returned, cancelledAt, client,
    inv, singleton>>

\* The requests that will insert a conversation and have not yet.
Opening ==
  {q \in Procs : reqs[q].at \in {"lookup", "insert", "conv"} /\ reqs[q].conversationId = 0}

\* Process p receives a request that passes the token and permission checks,
\* with a message of its own.
ConcRequest(p, sub, conversationId) ==
  /\ reqs[p].at = "idle"
  /\ reqs[p].round < MaxRounds
  /\ conversationId = 0 => Len(conversations) + Cardinality(Opening) < MaxConversations
  /\ reqs' = [reqs EXCEPT ![p] =
       [NoProc EXCEPT !.at = "lookup", !.sub = sub,
                      !.message = MessageOf(p, reqs[p].round + 1),
                      !.conversationId = conversationId,
                      !.round = reqs[p].round + 1]]
  /\ UNCHANGED <<users, conversations, messages, concOther>>

\* getOrCreateUser, the select: an existing user is returned.
SelectUser(p) ==
  /\ reqs[p].at = "lookup"
  /\ reqs' = [reqs EXCEPT ![p].at = IF reqs[p].sub \in users THEN "conv" ELSE "insert"]
  /\ UNCHANGED <<users, conversations, messages, concOther>>

\* getOrCreateUser, the insert after the userinfo fetch: auth0_id is unique,
\* so the insert of a subject that has a row by now throws, and the route's
\* catch answers 500.
InsertUser(p) ==
  /\ reqs[p].at = "insert"
  /\ IF reqs[p].sub \in users
     THEN /\ reqs' = [reqs EXCEPT ![p].at = "responded", ![p].httpStatus = 500]
          /\ UNCHANGED users
     ELSE /\ users' = users \cup {reqs[p].sub}
          /\ reqs' = [reqs EXCEPT ![p].at = "conv"]
  /\ UNCHANGED <<conversations, messages, concOther>>

\* The conversation named is selected (404 unless it is the user's), or a new
\* one inserted.
ConcConversation(p) ==
  /\ reqs[p].at = "conv"
  /\ IF reqs[p].conversationId # 0
     THEN LET found == OwnConversation(reqs[p].conversationId, reqs[p].sub)
          IN  /\ reqs' = [reqs EXCEPT ![p] =
                   IF found = {}
                   THEN [@ EXCEPT !.at = "responded", !.httpStatus = 404]
                   ELSE [@ EXCEPT !.at = "save",
                                  !.conversation = conversations[CHOOSE c \in found : TRUE].id]]
              /\ UNCHANGED conversations
     ELSE /\ conversations' =
               Append(conversations,
                      [id |-> Len(conversations) + 1, userId |-> reqs[p].sub])
          /\ reqs' = [reqs EXCEPT ![p].at = "save",
                                  ![p].conversation = Len(conversations) + 1]
  /\ UNCHANGED <<users, messages, concOther>>

\* The user message is inserted.
ConcSaveUserMessage(p) ==
  /\ reqs[p].at = "save"
  /\ messages' =
       Append(messages,
              Message(reqs[p].conversation, "user", reqs[p].message, reqs[p].sub))
  /\ reqs' = [reqs EXCEPT ![p].at = "read"]
  /\ UNCHANGED <<users, conversations, concOther>>

\* The conversation's messages are selected, and the prompt is the template
\* over all of them but the last and the request's message.
ConcReadHistory(p) ==
  /\ reqs[p].at = "read"
  /\ LET history == History(reqs[p].conversation)
     IN  reqs' = [reqs EXCEPT
                    ![p].at = "prompted",
                    ![p].history = history,
                    ![p].prompt =
                      ChatPrompt(convertMessageHistory(AllButLast(history)),
                                 reqs[p].message)]
  /\ UNCHANGED <<users, conversations, messages, concOther>>

\* The request is over; the process serves the next one.
ConcEnd(p) ==
  /\ reqs[p].at \in {"prompted", "responded"}
  /\ reqs' = [reqs EXCEPT ![p] = [NoProc EXCEPT !.round = reqs[p].round]]
  /\ UNCHANGED <<users, conversations, messages, concOther>>

ConcNext ==
  \/ \E p \in Procs, sub \in Users, c \in {0, ConvRef} : ConcRequest(p, sub, c)
  \/ \E p \in Procs : SelectUser(p)
  \/ \E p \in Procs : InsertUser(p)
  \/ \E p \in Procs : ConcConversation(p)
  \/ \E p \in Procs : ConcSaveUserMessage(p)
  \/ \E p \in Procs : ConcReadHistory(p)
  \/ \E p \in Procs : ConcEnd(p)

ConcSpec == Init /\ [][ConcNext]_vars

(* -------------------------------------------------- sendMessageStream alone *)
\* The response's body is the frames of the events the route enqueued.
ServerFrames(evs) ==
  /\ client.at = "idle"
  /\ client' = [NoClient EXCEPT !.at = "reading", !.sent = evs, !.wire = Framed(evs)]

\* reader.read() resolves with the next n bytes: they are decoded and added
\* to the buffer, the buffer is split, its last line kept, and the events of
\* the other lines yielded. midFrame records that a chunk ended inside a frame.
ReadChunk(n) ==
  /\ client.at = "reading"
  /\ n \in 1..Len(client.wire)
  /\ LET d == Decode(client.pending, SubSeq(client.wire, 1, n))
         lines == Split(client.buffer \o d.out, <<>>)
     IN  client' = [client EXCEPT
                      !.wire = SubSeq(client.wire, n + 1, Len(client.wire)),
                      !.pending = d.pending,
                      !.buffer = Pop(lines),
                      !.yielded = client.yielded \o Yields(SubSeq(lines, 1, Len(lines) - 1)),
                      !.midFrame = client.midFrame \/ d.pending # <<>> \/ Pop(lines) # <<>>]

\* reader.read() resolves with done: the loop is left.
ReadDone ==
  /\ client.at = "reading"
  /\ client.wire = <<>>
  /\ client' = [client EXCEPT !.at = "done"]

\* The generator has returned; the next message is sent.
ClientEnd ==
  /\ client.at = "done"
  /\ client' = NoClient

ClientNext ==
  \/ (\E evs \in SeqsUpTo(ClientEvents, MaxEvents) : ServerFrames(evs))
       /\ UNCHANGED <<dbVars, agentVars, routeVars, cancelledAt, reqs, inv, singleton>>
  \/ (\E n \in 1..Len(client.wire) : ReadChunk(n))
       /\ UNCHANGED <<dbVars, agentVars, routeVars, cancelledAt, reqs, inv, singleton>>
  \/ ReadDone /\ UNCHANGED <<dbVars, agentVars, routeVars, cancelledAt, reqs, inv, singleton>>
  \/ ClientEnd /\ UNCHANGED <<dbVars, agentVars, routeVars, cancelledAt, reqs, inv, singleton>>

ClientSpec == Init /\ [][ClientNext]_vars

\* Steps of the agent loop and of the REST routes: none of them is a step of
\* a chat route, whose variables they leave alone.
Next ==
  \/ (\E u \in Users : PostGoal(u, "t1")) /\ UNCHANGED routeVars /\ UNCHANGED auxVars
  \/ (\E u \in Users, b \in PutBodies : PutGoal(u, GoalRef, b)) /\ UNCHANGED routeVars /\ UNCHANGED auxVars
  \/ (\E u \in Users : PostProgress(u, GoalRef, "n1", Absent)) /\ UNCHANGED routeVars /\ UNCHANGED auxVars
  \/ (\E u \in Users, h \in StoredHistories : StartChat(u, h)) /\ UNCHANGED routeVars /\ UNCHANGED auxVars
  \/ (\E r \in Responses : DecisionReturns(r.tool_calls, r.content)) /\ UNCHANGED routeVars /\ UNCHANGED auxVars
  \/ DecisionFails /\ UNCHANGED routeVars /\ UNCHANGED auxVars
  \/ ResumeAfterCall /\ UNCHANGED routeVars /\ UNCHANGED auxVars
  \/ ExecReturns /\ UNCHANGED routeVars /\ UNCHANGED auxVars
  \/ ExecThrows /\ UNCHANGED routeVars /\ UNCHANGED auxVars
  \/ ResumeAfterResult /\ UNCHANGED routeVars /\ UNCHANGED auxVars
  \/ (\E r \in FinalResponses : FollowUpReturns(r.tool_calls, r.content)) /\ UNCHANGED routeVars /\ UNCHANGED auxVars
  \/ FollowUpFails /\ UNCHANGED routeVars /\ UNCHANGED auxVars
  \/ ResumeAfterContent /\ UNCHANGED routeVars /\ UNCHANGED auxVars
  \/ ResumeAfterDone /\ UNCHANGED routeVars /\ UNCHANGED auxVars
  \/ EndRequest /\ UNCHANGED routeVars /\ UNCHANGED auxVars

Spec == Init /\ [][Next]_vars

(* ------------------------------------------------------------- properties *)
\* The generator has yielded its done event.
StreamDone == pc \in {"after_done", "finished"}

\* The request is over, by the generator returning or by its throwing.
RequestOver == pc \in {"finished", "failed"}

EventsOfType(t) == {k \in 1..Len(events) : events[k].type = t}

\* A serialized result that describes an error.
IsErrorPayload(r) == r.kind = "string" /\ r.json.tag = "error"

\* C1: when the first response carries n >= 1 tool calls and every callback
\* returns, the events are n tool_call and n tool_result events, interleaved in
\* the model's call order, then one content event, then done.
C1_InterleavedEvents ==
  (StreamDone /\ Len(response.tool_calls) >= 1) =>
    LET calls == response.tool_calls
        n == Len(calls)
    IN  /\ Len(events) = 2 * n + 2
        /\ \A i \in 1..n :
             /\ events[2 * i - 1].type = "tool_call"
             /\ events[2 * i - 1].data.name = calls[i].name
             /\ events[2 * i].type = "tool_result"
             /\ events[2 * i].data.name = calls[i].name
        /\ events[2 * n + 1].type = "content"
        /\ events[2 * n + 2].type = "done"

C3_ToolErrorReported ==
  raised # 0 =>
    /\ \E k \in EventsOfType("tool_result") : IsErrorPayload(events[k].data.result)
    /\ pc = "failed" => Len(modelCalls) = 2

\* C4: the callback of a tool call is invoked only when the call's arguments
\* satisfy the tool's schema.
C4_SchemaCheckedBeforeCallback ==
  \A k \in 1..Len(execLog) : SchemaOK(response.tool_calls[execLog[k]])

\* C5: every progress row belongs to a goal owned by the user whose request
\* inserted it.
C5_ProgressOfOwnGoal ==
  \A k \in 1..Len(progress) : goals[progress[k].goalId].userId = progress[k].by

\* C6: a goal row is changed only by a request of its owner that names that
\* goal: update_goal and PUT for a goal id the requesting user does not own
\* change no row.
C6_GoalMutatedByOwnerOnly ==
  \A g \in GoalIds :
    \A w \in goalWriters[g] : w.by = goals[g].userId /\ w.named = goals[g].id

\* An update_goal call has run for a goal that another user owns, and a goal
\* has been changed by its owner.
C6_Witness ==
  /\ pc = "after_result"
  /\ toolCall.name = "update_goal"
  /\ toolCall.args.goalId \in GoalIds
  /\ goals[toolCall.args.goalId].userId # reqUser
  /\ goalWriters[toolCall.args.goalId] # {}

\* C7: the result of every tool_result event is a string.
C7_ResultIsString ==
  \A k \in EventsOfType("tool_result") : events[k].data.result.kind = "string"

\* C8: at most one tool executor is in flight; while one is, the generator is
\* awaiting it, every executor started before it has completed and its
\* tool_result has been emitted; executors start in the model's call order.
C8_SequentialExecutors ==
  /\ Cardinality(inflight) <= 1
  /\ inflight # {} => pc = "exec" /\ inflight = {idx}
  /\ pc = "exec" => Cardinality(EventsOfType("tool_result")) = Len(execLog) - 1
  /\ \A k \in 1..Len(execLog) - 1 : execLog[k] < execLog[k + 1]

\* The second executor of a request is in flight after the first completed.
C8_Witness ==
  /\ pc = "exec"
  /\ Len(execLog) = 2
  /\ Cardinality(EventsOfType("tool_result")) = 1

\* C9: over a request the model is invoked once when the first response has no
\* tool call and twice when it has one or more, the second time without tools
\* bound, and only calls of the first response are executed.
C9_ModelInvocations ==
  RequestOver =>
    /\ Len(modelCalls) = IF Len(response.tool_calls) = 0 THEN 1 ELSE 2
    /\ Len(modelCalls) = 2 => ~modelCalls[2].tools
    /\ \A k \in 1..Len(execLog) : execLog[k] \in 1..Len(response.tool_calls)

IsDirective(msg, header) ==
  /\ msg.role = "system"
  /\ "header" \in DOMAIN msg.content
  /\ msg.content.header = header

Directives(header) ==
  {i \in 1..Len(enhancedHistory) : IsDirective(enhancedHistory[i], header)}

\* C10: the enhanced history is the progress directive if there are progress
\* notes, then the goals directive if there are active goals, then the history
\* in its order; it holds one goals directive iff k > 0 and one progress
\* directive iff m > 0.
C10_EnhancedHistoryShape ==
  pc # "idle" =>
    LET k == Len(userContext.goals)
        m == Len(userContext.recentProgress)
        goalsDirective == SystemMessage(goalsContext(userContext.goals))
        progressDirective == SystemMessage(progressContext(userContext.recentProgress))
    IN  /\ enhancedHistory =
             (IF m > 0 THEN <<progressDirective>> ELSE <<>>)
             \o (IF k > 0 THEN <<goalsDirective>> ELSE <<>>)
             \o chatHistory
        /\ Cardinality(Directives("Active goals:")) = IF k > 0 THEN 1 ELSE 0
        /\ Cardinality(Directives("Recent progress:")) = IF m > 0 THEN 1 ELSE 0

\* A request with active goals, progress notes and prior turns.
C10_Witness ==
  /\ pc = "decision"
  /\ Len(userContext.goals) > 0
  /\ Len(userContext.recentProgress) > 0
  /\ Len(chatHistory) > 1

(* ---------------------------------------- properties of the streaming route *)
\* The assistant messages inserted since the request came in.
AssistantRows ==
  {k \in atEntry.messages + 1..Len(messages) : messages[k].role = "assistant"}

\* The data of the content events among evs, concatenated in their order.
RECURSIVE ContentOf(_)
ContentOf(evs) ==
  IF evs = <<>> THEN Text("")
  ELSE Concat(IF Head(evs).type = "content" THEN Text(Head(evs).data) ELSE Text(""),
              ContentOf(Tail(evs)))

FramesOfType(t) == {k \in 1..Len(frames) : frames[k].data.type = t}

\* C11: in the streaming endpoint, once a request whose agent loop completed
\* is answered, exactly one assistant message has been inserted for it, in the
\* request's conversation, with the concatenation in emission order of the
\* data of the request's content events as its content; and an assistant
\* message is inserted only after the done event has been relayed.
C11_AssistantMessagePersisted ==
  /\ (rpc = "closed" /\ pc = "finished") =>
       /\ Cardinality(AssistantRows) = 1
       /\ \A k \in AssistantRows :
            /\ messages[k].conversationId = conversation
            /\ messages[k].content = ContentOf(events)
  /\ (rpc # "idle" /\ AssistantRows # {}) =>
       /\ Cardinality(AssistantRows) = 1
       /\ FramesOfType("done") # {}
       /\ pc = "finished"

\* A request with tool calls has been answered and its assistant message
\* carries the follow-up's content.
C11_Witness ==
  /\ rpc = "closed"
  /\ pc = "finished"
  /\ Len(execLog) > 0
  /\ messages[Len(messages)].role = "assistant"
  /\ messages[Len(messages)].content = Text("c1")

\* C12: when the streaming endpoint's agent loop fails, by a model call
\* failing or a tool callback rejecting, the last frame the consumer receives
\* is an error event and no assistant message is inserted for the request.
C12_ErrorFrameOnFailure ==
  (rpc = "closed" /\ pc = "failed") =>
    /\ Len(frames) > 0
    /\ frames[Len(frames)].data.type = "error"
    /\ AssistantRows = {}

\* A tool callback has rejected after its tool_call event was relayed, and
\* the stream has been closed.
C12_Witness ==
  /\ rpc = "closed"
  /\ raised # 0
  /\ Len(frames) >= 2
  /\ Len(messages) = atEntry.messages + 1

(* ------------------------------------------------ properties of the failures *)
ModelCallsWith(tools) == {k \in 1..Len(modelCalls) : modelCalls[k].tools = tools}

\* C13: the agent core attempts each of the two model passes at most once per
\* request; when the decision pass fails the generator throws with no event
\* emitted and no tool executed, and when the follow-up pass fails it throws
\* with no content and no done event emitted.
C13_ModelErrorNotRetried ==
  /\ Cardinality(ModelCallsWith(TRUE)) <= 1
  /\ Cardinality(ModelCallsWith(FALSE)) <= 1
  /\ (pc = "failed" /\ raised = 0) =>
       IF modelCalls[Len(modelCalls)].tools
       THEN events = <<>> /\ execLog = <<>>
       ELSE EventsOfType("content") = {} /\ EventsOfType("done") = {}

\* The follow-up pass has failed after the tool events of the request.
C13_Witness ==
  /\ pc = "failed"
  /\ raised = 0
  /\ Len(modelCalls) = 2
  /\ Len(events) > 0

\* C14: when the callback of the k-th tool call rejects, the generator throws:
\* no tool call after the k-th is executed in the request, and the rows the
\* earlier calls wrote stay as they are, at the rejection and afterwards.
C14_StopAtFailingTool ==
  [][/\ raised' # 0 =>
          /\ pc' = "failed"
          /\ \A j \in 1..Len(execLog') : execLog'[j] <= raised'
     /\ (raised # 0 \/ raised' # 0) => goals' = goals /\ progress' = progress]_vars

\* The second call's callback has rejected after the first call inserted a
\* goal, which is still there.
C14_Witness ==
  /\ raised = 2
  /\ execLog = <<1, 2>>
  /\ response.tool_calls[1].name = "create_goal"
  /\ Len(goals) = 1
  /\ goals[1].userId = reqUser

(* ------------------------------------- properties of the non-streaming variant *)
\* The positions of the tool calls chatWithToolsStream executes for a
\* response: those naming a registered tool.
ExecutedByStream(calls) == {i \in 1..Len(calls) : FindTool(calls[i].name)}

\* C15: chatWithTools performs the two-pass logic of chatWithToolsStream: when
\* it has returned, the callbacks of the response's tool calls have been
\* executed in the response's order, and the text returned is the one the
\* streaming variant emits as content: the response's content without tool
\* calls, and with tool calls the content of a second, follow-up invocation.
C15_SameTwoPassLogic ==
  pc = "returned" =>
    /\ {execLog[k] : k \in 1..Len(execLog)} = ExecutedByStream(response.tool_calls)
    /\ \A k \in 1..Len(execLog) - 1 : execLog[k] < execLog[k + 1]
    /\ IF Len(response.tool_calls) = 0
       THEN Len(modelCalls) = 1 /\ returned = response.content
       ELSE Len(modelCalls) = 2 /\ returned = finalResponse.content

(* ------------------------------------------- properties of the route's gates *)
\* The request being served has written none of the tables so far.
Unwritten == atEntry = Tables

\* Neither the model nor a tool has been invoked for the request being served.
NothingInvoked == pc = "idle" /\ modelCalls = <<>> /\ execLog = <<>>

\* The request being served has passed the token and permission checks.
Authorized == request.valid /\ request.perm

\* C16: a chat request whose message text is missing or empty creates no
\* conversation and no message and has neither the model nor a tool invoked;
\* having passed the token and permission checks, it is answered with status
\* 400.
C16_EmptyMessageRejected ==
  (rpc # "idle" /\ request.message \in {Absent, ""}) =>
    /\ Unwritten
    /\ NothingInvoked
    /\ rpc \in {"auth", "perm", "user", "body", "responded"}
    /\ (rpc = "responded" /\ Authorized) => httpStatus = 400

\* An authorized request with an empty message has been answered.
C16_Witness ==
  /\ rpc = "responded"
  /\ httpStatus = 400
  /\ request.message = ""

\* The request being served names a conversation that is not the requesting
\* user's: one of another user, or none.
NamesForeignConversation ==
  /\ request.conversationId # 0
  /\ ~ /\ request.conversationId \in 1..Len(conversations)
       /\ conversations[request.conversationId].userId = request.sub

\* C17: every message is in a conversation owned by the user whose request
\* inserted it; a chat request naming a conversation the requesting user does
\* not own appends no message and has neither the model nor a tool invoked,
\* and, having passed the checks before the look-up, is answered with 404.
C17_MessagesInOwnConversation ==
  /\ \A k \in 1..Len(messages) :
       /\ messages[k].conversationId \in 1..Len(conversations)
       /\ conversations[messages[k].conversationId].userId = messages[k].by
  /\ (rpc # "idle" /\ NamesForeignConversation) =>
       /\ Len(messages) = atEntry.messages
       /\ NothingInvoked
       /\ (rpc = "responded" /\ Authorized /\ request.message = "m1") =>
            httpStatus = 404

\* A request naming another user's conversation has been answered with 404.
C17_Witness ==
  /\ rpc = "responded"
  /\ httpStatus = 404
  /\ request.conversationId \in 1..Len(conversations)
  /\ conversations[request.conversationId].userId # request.sub

\* C18: the agent loop is invoked and a conversation, message, goal or progress
\* row is written for a chat request only when its token has been validated
\* and its subject found to hold chat:access, and never before those two
\* checks are over; a subject without the permission is answered 403.
C18_AuthorizedBeforeWrites ==
  /\ (rpc # "idle" /\ ~Authorized) => Unwritten /\ NothingInvoked
  /\ rpc \in {"auth", "perm"} => Unwritten /\ NothingInvoked
  /\ (rpc = "responded" /\ request.valid /\ ~request.perm) => httpStatus = 403
  /\ (rpc = "responded" /\ ~request.valid) => httpStatus = 401

\* A request with a valid token, a message and no chat:access has been
\* answered with 403.
C18_Witness ==
  /\ rpc = "responded"
  /\ httpStatus = 403
  /\ request.valid
  /\ request.message = "m1"

(* ------------------------------------------------ properties of the tool calls *)
\* The value a supplied argument gives a goal's field.
NewValue(field, arg) == IF field = "targetDate" THEN NewDate(arg) ELSE arg

GoalFields == {"title", "description", "status", "targetDate"}

\* C19: an update_goal call changes exactly the fields it supplies: in the
\* requesting user's goal it names, each supplied field takes the new value
\* and each field not supplied stays as it was.
C19_ExactlySuppliedFields ==
  [][toolCall'.name = "update_goal" =>
       \A g \in GoalIds :
         (goals[g].id = toolCall'.args.goalId /\ goals[g].userId = reqUser') =>
           \A f \in GoalFields :
             goals'[g][f] = IF toolCall'.args[f] # Absent
                            THEN NewValue(f, toolCall'.args[f])
                            ELSE goals[g][f]]_vars

\* The row create_goal is to insert for a call of user u.
CreatedRow(call, u) ==
  [id |-> Len(goals) + 1, userId |-> u, title |-> call.args.title,
   description |-> IF call.args.description = Absent THEN Null
                   ELSE call.args.description,
   status |-> "active",
   targetDate |-> IF call.args.targetDate = Absent THEN Null
                  ELSE NewDate(call.args.targetDate)]

\* C20: an executed create_goal call inserts exactly one goal row, owned by
\* the requesting user, with status active, the given title, and a null
\* description and a null target date when they are not supplied; the other
\* goal rows and the progress rows stay as they are.
C20_CreateInsertsOneRow ==
  [][toolCall'.name = "create_goal" =>
       /\ goals' = Append(goals, CreatedRow(toolCall', reqUser'))
       /\ progress' = progress]_vars

\* A create_goal call without description and target date has inserted a
\* second goal, next to a goal of another user.
C20_Witness ==
  /\ Len(goals) = 2
  /\ Len(response.tool_calls) = 1
  /\ toolCall.name = "create_goal"
  /\ toolCall.args.description = Absent
  /\ goals[2].userId = reqUser
  /\ goals[2].description = Null
  /\ goals[2].targetDate = Null
  /\ goals[1].userId # reqUser
  /\ goals[1].description = "d1"

(* ------------------------------------------------- properties of list_goals *)
\* C21: list_goals never changes stored state, and invoked twice in a row with
\* no write in between it returns the same result: the step that executes a
\* list_goals call leaves every table as it was, and when the call before it
\* in the same response was a list_goals too, its result is that call's.
C21_ListGoalsReadOnly ==
  [][(pc = "exec" /\ pc' = "after_result" /\ toolCall.name = "list_goals") =>
       /\ dbVars' = dbVars
       /\ conversations' = conversations
       /\ messages' = messages
       /\ (idx > 1 /\ response.tool_calls[idx - 1].name = "list_goals") =>
            events'[Len(events')].data.result =
              toolMessages[Len(toolMessages)].content]_vars

\* Two list_goals calls of one response have run, for a user who has a goal
\* and with a progress entry stored.
C21_Witness ==
  /\ Len(toolMessages) = 2
  /\ toolMessages[1].name = "list_goals"
  /\ toolMessages[2].name = "list_goals"
  /\ toolMessages[1].content = toolMessages[2].content
  /\ \E i \in 1..Len(goals) : goals[i].userId = reqUser
  /\ Len(progress) > 0

(* ------------------------------------------ properties of the stream's end *)
\* C22: when the streaming endpoint has answered a request for which it
\* created a new conversation, whatever the outcome of the agent loop, the
\* last frame is a conversation_id event carrying that conversation's id, a
\* done event was relayed before it and the assistant message is stored.
C22_NewConversationIdSent ==
  (rpc = "closed" /\ request.conversationId = 0) =>
    /\ Len(frames) > 0
    /\ frames[Len(frames)].data.type = "conversation_id"
    /\ frames[Len(frames)].data.data.conversationId = conversation
    /\ \E k \in FramesOfType("done") : k < Len(frames)
    /\ Cardinality(AssistantRows) = 1

(* ------------------------------------- properties of the follow-up prompt *)
Inputs == {"m1"}
DistinctIds(calls) ==
  \A i, j \in 1..Len(calls) : calls[i].id = calls[j].id => i = j

\* C26: when the first response carries n >= 1 tool calls, the prompt of the
\* follow-up invocation is the enhanced history, then the user turn, then one
\* assistant turn echoing the n tool-call requests, then exactly n tool-result
\* turns in the calls' order, the i-th carrying the i-th call's id, so that
\* every call id has exactly one tool-result turn.
C26_FollowUpPrompt ==
  pc = "followup" =>
    \A input \in Inputs :
      LET h == followUpHistory(input)
          calls == response.tool_calls
          n == Len(calls)
          e == Len(enhancedHistory)
      IN  /\ Len(h) = e + 2 + n
          /\ SubSeq(h, 1, e) = enhancedHistory
          /\ h[e + 1] = HumanMessage(input)
          /\ h[e + 2].role = "ai"
          /\ h[e + 2].tool_calls = calls
          /\ \A i \in 1..n :
               /\ h[e + 2 + i].role = "tool"
               /\ h[e + 2 + i].tool_call_id = calls[i].id
          /\ DistinctIds(calls) =>
               \A i \in 1..n :
                 Cardinality({k \in e + 3..Len(h) :
                                h[k].tool_call_id = calls[i].id}) = 1

(* -------------------------------------------- properties of a goal's status *)
\* C24: after any sequence of create_goal and update_goal tool calls and of
\* POST and PUT /api/goals requests, the status of every stored goal is one
\* of active, completed, paused and abandoned.
C24_StatusInSet ==
  \A g \in GoalIds : goals[g].status \in {"active", "completed", "paused", "abandoned"}

(* ------------------------------------------ properties of sendMessageStream *)
IsPrefix(a, b) == Len(a) <= Len(b) /\ a = SubSeq(b, 1, Len(a))

\* C29: sendMessageStream does not depend on how the body is cut into
\* chunks: whatever the chunks read() resolves with, the events yielded so far
\* are the first of the events the server framed, in their order and once
\* each, and when the body has been read to its end they are all of them.
C29_ChunkingIndependent ==
  /\ IsPrefix(client.yielded, client.sent)
  /\ client.at = "done" => client.yielded = client.sent

\* Two events have been read to the end with a chunk that ended inside a
\* frame, one of them with the two-byte character.
C29_Witness ==
  /\ client.at = "done"
  /\ client.midFrame
  /\ client.sent = <<"e2", "e1">>
  /\ client.yielded = client.sent

(* ------------------------------------ properties of requests side by side *)
Occurrences(prompt, m) == {k \in 1..Len(prompt) : prompt[k] = m}

\* C27: whatever other requests on the same conversation do in between, the
\* prompt a request builds ends with its own new user message as the human
\* turn and holds it nowhere else, and holds every other message the history
\* read returned exactly once.
C27_OwnMessageOnce ==
  \A p \in Procs :
    reqs[p].at = "prompted" =>
      LET prompt == reqs[p].prompt
          own == HumanMessage(reqs[p].message)
          others == {i \in 1..Len(reqs[p].history) :
                       reqs[p].history[i].content # reqs[p].message}
      IN  /\ prompt[Len(prompt)] = own
          /\ Cardinality(Occurrences(prompt, own)) = 1
          /\ \A i \in others :
               Cardinality(Occurrences(prompt, HumanMessage(reqs[p].history[i].content))) = 1

\* C28: whatever the interleaving of first requests from one unseen subject,
\* getOrCreateUser fails for none of them: no request is answered 500.
C28_NoRequestFails ==
  \A p \in Procs : reqs[p].httpStatus # 500

(* ---------------------------------------- properties of an abandoned stream *)
NoDuplicates(log) == \A i, j \in 1..Len(log) : log[i] = log[j] => i = j

\* C23: when the consumer abandons the stream, the generator is ended only
\* at a yield point, never while a tool callback is in flight: a callback
\* that was dispatched runs until it has returned or thrown, and no call of
\* the response is dispatched twice.
C23_EndedOnlyAtYield ==
  [][/\ (pc' = "terminated" /\ pc # "terminated") =>
          (pc \in YieldPoints /\ inflight = {} /\ inflight' = {})
     /\ (pc = "exec" /\ cancelledAt' # "none") =>
          pc' \in {"exec", "after_result", "failed"}
     /\ NoDuplicates(execLog')]_vars

\* The consumer left while the first of two tool calls was executing: the
\* goal it inserts is stored, its result was yielded, and the generator was
\* ended there, before the second call.
C23_Witness ==
  /\ cancelledAt = "exec"
  /\ pc = "terminated"
  /\ Len(response.tool_calls) = 2
  /\ execLog = <<1>>
  /\ response.tool_calls[1].name = "create_goal"
  /\ Len(goals) = 1
  /\ events[Len(events)].type = "tool_result"

(* --------------------------------- properties of invocations side by side *)
\* The events chatWithToolsStream emits, run alone, for a first response,
\* the results of its tool calls and the follow-up's content.
RECURSIVE ToolEvents(_, _)
ToolEvents(calls, results) ==
  IF calls = <<>> THEN <<>>
  ELSE <<ToolCallEvent(Head(calls)), ToolResultEvent(Head(calls), Head(results))>>
         \o ToolEvents(Tail(calls), Tail(results))

Alone(x) ==
  IF Len(x.response.tool_calls) > 0
  THEN ToolEvents(x.response.tool_calls, x.results)
         \o <<ContentEvent(x.final.content), DoneEvent>>
  ELSE IF HasContent(x.response.content)
       THEN <<ContentEvent(x.response.content), DoneEvent>>
       ELSE <<DoneEvent>>

FinalFrames == FramesOfType("conversation_id") \cup FramesOfType("error")

\* A closed stream has exactly one frame that is a conversation_id or an
\* error event, it is the last frame, and it is the conversation_id event
\* exactly when the agent loop completed.
ClosedWithOneFinalFrame ==
  rpc = "closed" =>
    /\ FinalFrames = {Len(frames)}
    /\ Len(frames) > 0
    /\ frames[Len(frames)].data.type =
         IF pc = "finished" THEN "conversation_id" ELSE "error"

====
